---- MODULE Spec2Model ----
(***************************************************************************)
(* Event ingestion, projection and identity-merge pipeline of the          *)
(* hypertrophy backend (backend/app/services).  The relational tables are  *)
(* the state; every service method is one action.                          *)
(***************************************************************************)
EXTENDS Integers, Sequences, FiniteSets, Bags, TLC

VARIABLES
    users,                \* table users
    events,               \* table events
    workouts_projection,  \* table workouts_projection
    sets_projection,      \* table sets_projection
    weekly_metrics,       \* table weekly_metrics
    weekly_reports,       \* table weekly_reports
    call,                 \* the service call that has just returned
    inflight,             \* the sync_events calls that run concurrently
    nsync                 \* number of batches clients have submitted

vars == <<users, events, workouts_projection, sets_projection, weekly_metrics,
          weekly_reports, call, inflight, nsync>>

(***************************************************************************)
(* Bounds of the explored inputs.                                          *)
(***************************************************************************)
MaxEventId == 2
MaxSeq == 2
MaxBatch == 2
MaxSyncs == 2
MaxRaceEvents == 3

EventIds == 1..MaxEventId
Seqs == 1..MaxSeq

AnonUser == "ua"
RealUser == "ur"
UserIds == {AnonUser, RealUser}
DeviceIds == {"d1", "d2"}
WorkoutIds == {"w1"}
SetIds == {"s1"}
ExerciseIds == {"x1"}
\* Instants are day numbers; day 0 is a Monday.
StartInstants == {1}
EndInstants == {9}
RepsValues == {0, 5}

\* Optional values (None / a value) are sequences of length 0 or 1.
None == <<>>
Some(v) == <<v>>

(***************************************************************************)
(* domain/events.py                                                        *)
(***************************************************************************)
EventType ==
    {"WorkoutStarted", "WorkoutEnded", "ExerciseAdded", "SetCompleted"}

\* The required fields of each payload schema.
EVENT_PAYLOAD_SCHEMAS ==
    [t \in EventType |->
        CASE t = "WorkoutStarted" -> {"workout_id", "started_at"}
          [] t = "WorkoutEnded" -> {"workout_id", "ended_at"}
          [] t = "ExerciseAdded" -> {"workout_id", "exercise_id", "exercise_name"}
          [] t = "SetCompleted" ->
                {"workout_id", "exercise_id", "set_id", "reps", "weight", "completed_at"}]

\* reps and weight checked with ge=0 instead of gt=0.
SetCompletedPayload_ge(payload) ==
    /\ payload.reps >= 0
    /\ payload.weight >= 0

\* Field(..., gt=0) on reps and weight of SetCompletedPayload.
SetCompletedPayload(payload) ==
    /\ payload.reps > 0
    /\ payload.weight > 0

\* TRUE when validate_event_payload returns, FALSE when it raises.
validate_event_payload(event_type, payload) ==
    /\ event_type \in EventType
    /\ EVENT_PAYLOAD_SCHEMAS[event_type] \subseteq DOMAIN payload
    /\ event_type = "SetCompleted" => SetCompletedPayload(payload)

(***************************************************************************)
(* The payloads clients send.                                              *)
(***************************************************************************)
StartedPayloads ==
    {[workout_id |-> w, started_at |-> t] : w \in WorkoutIds, t \in StartInstants}

EndedPayloads ==
    {[workout_id |-> w, ended_at |-> t] : w \in WorkoutIds, t \in EndInstants}

SetPayloads ==
    {[workout_id |-> w, exercise_id |-> x, set_id |-> s, reps |-> n,
      weight |-> 10, completed_at |-> t] :
        w \in WorkoutIds, x \in ExerciseIds, s \in SetIds, n \in RepsValues,
        t \in StartInstants}

\* (event_type, payload) pairs: the well-formed ones, a SetCompleted with
\* reps = 0, an event of unknown type and a WorkoutStarted without started_at.
Catalog ==
    ({"WorkoutStarted"} \X StartedPayloads)
    \cup ({"WorkoutEnded"} \X EndedPayloads)
    \cup ({"SetCompleted"} \X SetPayloads)
    \cup {<<"WorkoutPaused", [workout_id |-> "w1"]>>}
    \cup {<<"WorkoutStarted", [workout_id |-> "w1"]>>}

\* One element of the events list of a sync request.
EventData ==
    {[event_id |-> i, event_type |-> c[1], payload |-> c[2], sequence_number |-> n] :
        i \in EventIds, c \in Catalog, n \in Seqs}

Batches ==
    UNION {[1..k -> EventData] : k \in 1..MaxBatch}

(***************************************************************************)
(* Generic helpers.                                                        *)
(***************************************************************************)
SeqToSet(s) == {s[i] : i \in DOMAIN s}

Max(S) == CHOOSE x \in S : \A y \in S : y <= x

\* Python's sorted() on a set of integers.
RECURSIVE sorted(_)
sorted(S) ==
    IF S = {} THEN <<>>
    ELSE LET m == CHOOSE x \in S : \A y \in S : x <= y
         IN  <<m>> \o sorted(S \ {m})

\* UUID order of the device ids, as ORDER BY device_id sees it.
DeviceRank(d) == IF d = "d1" THEN 1 ELSE 2

\* ORDER BY device_id, sequence_number.
RowBefore(r1, r2) ==
    \/ DeviceRank(r1.device_id) < DeviceRank(r2.device_id)
    \/ /\ r1.device_id = r2.device_id
       /\ r1.sequence_number < r2.sequence_number

RowTied(r1, r2) ==
    /\ r1.device_id = r2.device_id
    /\ r1.sequence_number = r2.sequence_number

\* Every row sequence the query
\*   query(Event).order_by(Event.device_id, Event.sequence_number).all()
\* may return for the rows in S: rows of equal key come in any order.
RECURSIVE order_by_device_sequence(_)
order_by_device_sequence(S) ==
    IF S = {} THEN {<<>>}
    ELSE UNION {
            {<<r>> \o rest : rest \in order_by_device_sequence(S \ {r})} :
                r \in {x \in S : \A y \in S : RowBefore(x, y) \/ RowTied(x, y) \/ x = y}}

(***************************************************************************)
(* services/sync_service.py                                                *)
(***************************************************************************)
SyncResult(accepted_count, rejected_count, last_acked_sequence, rejected_event_ids) ==
    [accepted_count |-> accepted_count,
     rejected_count |-> rejected_count,
     last_acked_sequence |-> last_acked_sequence,
     rejected_event_ids |-> rejected_event_ids]

sequence_numbers(batch) == [i \in DOMAIN batch |-> batch[i].sequence_number]

\* The batch compared with sorted(sequence_numbers): duplicates pass.
monotonic_no_set(batch) ==
    \A i, j \in DOMAIN batch : i < j => batch[i].sequence_number <= batch[j].sequence_number

\* The test of line 69, negated: the batch passes when its sequence numbers
\* equal sorted(set(sequence_numbers)).
monotonic(batch) ==
    sequence_numbers(batch) = sorted(SeqToSet(sequence_numbers(batch)))

event_ids_of(batch) == [i \in DOMAIN batch |-> batch[i].event_id]

\* A probe that finds no stored event.
existing_event_ids_none(batch, table) == {}

\* The single existence query of lines 91-95.
existing_event_ids(batch, table) ==
    {e.event_id : e \in {x \in table : x.event_id \in SeqToSet(event_ids_of(batch))}}

\* The cursor overwritten by every accepted event, without the comparison.
ack_overwrite(last_acked_sequence, sequence_number) == Some(sequence_number)

\* if last_acked_sequence is None or sequence_number > last_acked_sequence
ack(last_acked_sequence, sequence_number) ==
    IF last_acked_sequence = None \/ sequence_number > last_acked_sequence[1]
    THEN Some(sequence_number)
    ELSE last_acked_sequence

\* The loop without line 112: an event that fails validation is counted as
\* rejected and its id is not reported.
RECURSIVE classify_unlisted(_, _, _, _)
classify_unlisted(batch, existing, i, st) ==
    IF i > Len(batch) THEN st
    ELSE LET e == batch[i] IN
        IF ~validate_event_payload(e.event_type, e.payload)
        THEN classify_unlisted(batch, existing, i + 1,
                [st EXCEPT !.rejected_count = @ + 1])
        ELSE IF e.event_id \in existing
        THEN classify_unlisted(batch, existing, i + 1,
                [st EXCEPT !.accepted_count = @ + 1,
                           !.last_acked_sequence = ack(@, e.sequence_number)])
        ELSE classify_unlisted(batch, existing, i + 1,
                [st EXCEPT !.events_to_insert = Append(@, e)])

\* The classification loop of lines 97-134 from position i on; st carries
\* accepted_count, rejected_count, rejected_event_ids, last_acked_sequence and
\* events_to_insert.
RECURSIVE classify(_, _, _, _)
classify(batch, existing, i, st) ==
    IF i > Len(batch) THEN st
    ELSE LET e == batch[i] IN
        IF ~validate_event_payload(e.event_type, e.payload)
        THEN classify(batch, existing, i + 1,
                [st EXCEPT !.rejected_count = @ + 1,
                           !.rejected_event_ids = Append(@, e.event_id)])
        ELSE IF e.event_id \in existing
        THEN classify(batch, existing, i + 1,
                [st EXCEPT !.accepted_count = @ + 1,
                           !.last_acked_sequence = ack(@, e.sequence_number)])
        ELSE classify(batch, existing, i + 1,
                [st EXCEPT !.events_to_insert = Append(@, e)])

\* The server-generated key a uuid4 default would give a new row.
NewRowId(table) == 1 + Max({r.event_id : r \in table} \cup {MaxEventId})

\* db.add(Event(...)) with a key the server makes up instead of the client's.
add_generated_id(table, event_data, user_id, device_id) ==
    table \cup {[event_id |-> NewRowId(table),
                 event_type |-> event_data.event_type,
                 payload |-> event_data.payload,
                 user_id |-> user_id,
                 device_id |-> device_id,
                 sequence_number |-> event_data.sequence_number]}

\* The row is built but never added to the session.
add_forgotten(table, event_data, user_id, device_id) == table

\* db.add(Event(event_id=event_data["event_id"], ...)), lines 140-148.
add(table, event_data, user_id, device_id) ==
    table \cup {[event_id |-> event_data.event_id,
                 event_type |-> event_data.event_type,
                 payload |-> event_data.payload,
                 user_id |-> user_id,
                 device_id |-> device_id,
                 sequence_number |-> event_data.sequence_number]}

RECURSIVE add_all(_, _, _, _, _)
add_all(table, rows, i, user_id, device_id) ==
    IF i > Len(rows) THEN table
    ELSE add_all(add(table, rows[i], user_id, device_id), rows, i + 1, user_id, device_id)

\* An events table without a primary key: no commit ever raises.
IntegrityError_never(table, rows) == FALSE

\* The primary key of events (models/events.py): the commit of rows raises
\* IntegrityError when a key is already stored or occurs twice among rows.
IntegrityError(table, rows) ==
    \/ \E i \in DOMAIN rows : \E e \in table : e.event_id = rows[i].event_id
    \/ \E i, j \in DOMAIN rows : i # j /\ rows[i].event_id = rows[j].event_id

\* The rows of table that the query of lines 159-168 selects.
inserted_rows(table, rows) ==
    {e \in table : \E i \in DOMAIN rows : e.event_id = rows[i].event_id}

\* Lines 189-193: count the inserted events and move the ack cursor.
RECURSIVE count_inserted(_, _, _)
count_inserted(rows, i, st) ==
    IF i > Len(rows) THEN st
    ELSE count_inserted(rows, i + 1,
            [st EXCEPT !.accepted_count = @ + 1,
                       !.last_acked_sequence = ack(@, rows[i].sequence_number)])

\* Lines 199-230: after the rollback, one insert and commit per event; an
\* IntegrityError of a single insert counts the event as accepted.
RECURSIVE insert_individually(_, _, _, _, _)
insert_individually(rows, i, st, user_id, device_id) ==
    IF i > Len(rows) THEN st
    ELSE LET counted == [st EXCEPT
                            !.accepted_count = @ + 1,
                            !.last_acked_sequence = ack(@, rows[i].sequence_number)]
         IN  IF IntegrityError(st.table, <<rows[i]>>)
             THEN insert_individually(rows, i + 1, counted, user_id, device_id)
             ELSE insert_individually(rows, i + 1,
                    [counted EXCEPT !.table = add(@, rows[i], user_id, device_id)],
                    user_id, device_id)

(***************************************************************************)
(* services/metrics_service.py                                             *)
(***************************************************************************)
\* dt.date() - timedelta(days=dt.weekday()); day 0 is a Monday.
get_week_start(dt) == dt - (dt % 7)

RECURSIVE SumVolume(_)
SumVolume(S) ==
    IF S = {} THEN 0
    ELSE LET s == CHOOSE x \in S : TRUE
         IN  s.reps * s.weight + SumVolume(S \ {s})

\* weekly_metrics is a bag of rows: the id column is a random surrogate key
\* that no service reads, so rows are told apart by their other columns only.
WeeklyMetrics(user_id, week_start, total_workouts, total_volume, exercises_count) ==
    [user_id |-> user_id, week_start |-> week_start,
     total_workouts |-> total_workouts, total_volume |-> total_volume,
     exercises_count |-> exercises_count]

\* "Find or create metrics": every table the upsert of one (user_id,
\* week_start) row can leave.  query(...).first() has no ORDER BY, so with
\* several matching rows any of them may be the one updated.
upsert_metrics(metrics, user_id, week_start, total_workouts, total_volume, exercises_count) ==
    LET found == {m \in BagToSet(metrics) :
                    m.user_id = user_id /\ m.week_start = week_start}
        row == WeeklyMetrics(user_id, week_start, total_workouts, total_volume,
                             exercises_count)
    IN  IF found = {}
        THEN {metrics (+) SetToBag({row})}
        ELSE {(metrics (-) SetToBag({m})) (+) SetToBag({row}) : m \in found}

\* The aggregates of a list of workouts: lines 59-81 and 146-155.
upsert_week(metrics, user_id, week_start, week_workouts, sets) ==
    LET workout_ids == {w.workout_id : w \in week_workouts}
        all_sets == {s \in sets : s.workout_id \in workout_ids}
    IN  upsert_metrics(metrics, user_id, week_start,
                       Cardinality(week_workouts),
                       SumVolume(all_sets),
                       Cardinality({s.exercise_id : s \in all_sets}))

\* calculate_weekly_metrics without the status filter of line 51.
calculate_weekly_metrics_any_status(user_id, week_start, workouts, sets, metrics) ==
    LET week_end == week_start + 6
        in_week == {w \in workouts :
                        /\ w.user_id = user_id
                        /\ w.started_at >= week_start
                        /\ w.started_at <= week_end}
    IN  upsert_week(metrics, user_id, week_start, in_week, sets)

\* calculate_weekly_metrics(user_id, week_start): the tables it can leave.
calculate_weekly_metrics(user_id, week_start, workouts, sets, metrics) ==
    LET week_end == week_start + 6
        in_week == {w \in workouts :
                        /\ w.user_id = user_id
                        /\ w.status = "completed"
                        /\ w.started_at >= week_start
                        /\ w.started_at <= week_end}
    IN  upsert_week(metrics, user_id, week_start, in_week, sets)

\* The loop of lines 143-181 over the weeks of weeks_data, in the order of
\* started_at; tables is the set of tables the earlier weeks can have left.
RECURSIVE rebuild_weeks(_, _, _, _, _)
rebuild_weeks(tables, user_id, weeks, completed, sets) ==
    IF weeks = <<>> THEN tables
    ELSE LET week_start == Head(weeks)
             week_workouts == {w \in completed : get_week_start(w.started_at) = week_start}
         IN  rebuild_weeks(
                UNION {upsert_week(t, user_id, week_start, week_workouts, sets) : t \in tables},
                user_id, Tail(weeks), completed, sets)

\* rebuild_weekly_metrics without the status filter of line 126.
rebuild_weekly_metrics_any_status(user_id, workouts, sets, metrics) ==
    LET completed == {w \in workouts : w.user_id = user_id}
        weeks == sorted({get_week_start(w.started_at) : w \in completed})
    IN  rebuild_weeks({metrics}, user_id, weeks, completed, sets)

\* rebuild_weekly_metrics(user_id): the tables it can leave.
rebuild_weekly_metrics(user_id, workouts, sets, metrics) ==
    LET completed == {w \in workouts : w.user_id = user_id /\ w.status = "completed"}
        weeks == sorted({get_week_start(w.started_at) : w \in completed})
    IN  rebuild_weeks({metrics}, user_id, weeks, completed, sets)

(***************************************************************************)
(* services/projection_service.py                                          *)
(***************************************************************************)
WorkoutProjection(workout_id, user_id, started_at, ended_at, status) ==
    [workout_id |-> workout_id, user_id |-> user_id, started_at |-> started_at,
     ended_at |-> ended_at, status |-> status]

SetProjection(payload) ==
    [set_id |-> payload.set_id, workout_id |-> payload.workout_id,
     exercise_id |-> payload.exercise_id, reps |-> payload.reps,
     weight |-> payload.weight, completed_at |-> payload.completed_at]

\* A lookup that takes any workout row for the one asked for.
has_workout_any(workouts, workout_id) == workouts # {}

\* query(WorkoutProjection).filter(workout_id == id).first() is not None
has_workout(workouts, workout_id) == \E w \in workouts : w.workout_id = workout_id

\* A WorkoutStarted that puts every row back to in_progress.
restarted_reset(w, started_at) ==
    [w EXCEPT !.started_at = started_at, !.status = "in_progress", !.ended_at = None]

\* A WorkoutStarted that leaves a completed row as it is.
restarted_keeps_start(w, started_at) ==
    IF w.status # "completed"
    THEN [w EXCEPT !.started_at = started_at, !.status = "in_progress", !.ended_at = None]
    ELSE w

\* Lines 187-190 and 202-205: a WorkoutStarted on an existing row.
restarted(w, started_at) ==
    IF w.status # "completed"
    THEN [w EXCEPT !.started_at = started_at, !.status = "in_progress", !.ended_at = None]
    ELSE [w EXCEPT !.started_at = started_at]

\* A WorkoutEnded that marks the row completed and leaves ended_at.
ended_status_only(w, ended_at) == [w EXCEPT !.status = "completed"]

\* Lines 227-228 and 238-239: a WorkoutEnded on an existing row.
ended(w, ended_at) == [w EXCEPT !.ended_at = Some(ended_at), !.status = "completed"]

\* One step of the loop of lines 173-255; st holds the workouts table as the
\* session sees it and the keys of workouts_in_transaction.
apply_workout_event(st, event) ==
    LET workout_id == event.payload.workout_id
        known == workout_id \in st.in_transaction \/ has_workout(st.workouts, workout_id)
    IN  IF event.event_type = "WorkoutStarted"
        THEN IF known
             THEN [st EXCEPT !.workouts =
                    {IF w.workout_id = workout_id
                     THEN restarted(w, event.payload.started_at) ELSE w : w \in @}]
             ELSE [workouts |-> st.workouts \cup
                        {WorkoutProjection(workout_id, event.user_id,
                                           event.payload.started_at, None, "in_progress")},
                   in_transaction |-> st.in_transaction \cup {workout_id}]
        ELSE IF known
             THEN [st EXCEPT !.workouts =
                    {IF w.workout_id = workout_id
                     THEN ended(w, event.payload.ended_at) ELSE w : w \in @}]
             ELSE [workouts |-> st.workouts \cup
                        {WorkoutProjection(workout_id, event.user_id,
                                           event.payload.ended_at,
                                           Some(event.payload.ended_at), "completed")},
                   in_transaction |-> st.in_transaction \cup {workout_id}]

RECURSIVE apply_workout_events(_, _)
apply_workout_events(st, workout_events) ==
    IF workout_events = <<>> THEN st
    ELSE apply_workout_events(apply_workout_event(st, Head(workout_events)),
                              Tail(workout_events))

\* A SetCompleted is applied whatever its workout: the check of lines 284-288
\* left out.
workout_exists_unchecked(st, workout_id) == TRUE

\* Lines 273-282: the workout is in workouts_in_transaction or in the table.
workout_exists(st, workout_id) ==
    workout_id \in st.in_transaction \/ has_workout(st.workouts, workout_id)

\* One step of the loop of lines 265-318: skip the orphan, else upsert by set_id.
apply_set_event(st, sets, event) ==
    IF ~workout_exists(st, event.payload.workout_id) THEN sets
    ELSE {s \in sets : s.set_id # event.payload.set_id}
            \cup {SetProjection(event.payload)}

RECURSIVE apply_set_events(_, _, _)
apply_set_events(st, sets, set_events) ==
    IF set_events = <<>> THEN sets
    ELSE apply_set_events(st, apply_set_event(st, sets, Head(set_events)),
                          Tail(set_events))

IsWorkoutEvent(e) == e.event_type \in {"WorkoutStarted", "WorkoutEnded"}

IsSetEvent(e) == e.event_type = "SetCompleted"

\* update_projections(new_events, user_id) up to its commit (line 320): the
\* workouts and sets tables it leaves.
update_projections(new_events, workouts, sets) ==
    LET workout_events == SelectSeq(new_events, IsWorkoutEvent)
        set_events == SelectSeq(new_events, IsSetEvent)
        st == apply_workout_events([workouts |-> workouts, in_transaction |-> {}],
                                   workout_events)
    IN  [workouts |-> st.workouts,
         sets |-> apply_set_events(st, sets, set_events)]

\* The first loop of _replay_events (lines 54-86): the workouts dict.
RECURSIVE replay_workouts(_, _)
replay_workouts(log, workouts) ==
    IF log = <<>> THEN workouts
    ELSE LET event == Head(log)
             workout_id == event.payload.workout_id
         IN  IF event.event_type = "WorkoutStarted"
             THEN replay_workouts(Tail(log),
                    {w \in workouts : w.workout_id # workout_id} \cup
                    {WorkoutProjection(workout_id, event.user_id,
                                       event.payload.started_at, None, "in_progress")})
             ELSE IF event.event_type = "WorkoutEnded"
             THEN replay_workouts(Tail(log),
                    {IF w.workout_id = workout_id
                     THEN ended(w, event.payload.ended_at) ELSE w : w \in workouts})
             ELSE replay_workouts(Tail(log), workouts)

\* The second loop of _replay_events without the check of lines 112-114.
RECURSIVE replay_sets_unchecked(_, _, _)
replay_sets_unchecked(log, workouts, sets) ==
    IF log = <<>> THEN sets
    ELSE LET event == Head(log)
         IN  IF event.event_type = "SetCompleted"
             THEN replay_sets_unchecked(Tail(log), workouts,
                    {s \in sets : s.set_id # event.payload.set_id}
                        \cup {SetProjection(event.payload)})
             ELSE replay_sets_unchecked(Tail(log), workouts, sets)

\* The second loop of _replay_events (lines 106-130): the sets dict.
RECURSIVE replay_sets(_, _, _)
replay_sets(log, workouts, sets) ==
    IF log = <<>> THEN sets
    ELSE LET event == Head(log)
         IN  IF event.event_type = "SetCompleted"
                    /\ has_workout(workouts, event.payload.workout_id)
             THEN replay_sets(Tail(log), workouts,
                    {s \in sets : s.set_id # event.payload.set_id}
                        \cup {SetProjection(event.payload)})
             ELSE replay_sets(Tail(log), workouts, sets)

\* _replay_events on the ordered log: the tables it inserts into the emptied
\* projections.
replay_events(log) ==
    LET workouts == replay_workouts(log, {})
    IN  [workouts |-> workouts, sets |-> replay_sets(log, workouts, {})]

\* _rebuild_metrics_for_all_users: rebuild_weekly_metrics for the users of
\* user_ids one after the other; tables is what the earlier users can leave.
RECURSIVE rebuild_metrics_for_users(_, _, _, _)
rebuild_metrics_for_users(tables, user_ids, workouts, sets) ==
    IF user_ids = {} THEN tables
    ELSE LET user_id == CHOOSE u \in user_ids : TRUE
         IN  rebuild_metrics_for_users(
                UNION {rebuild_weekly_metrics(user_id, workouts, sets, t) : t \in tables},
                user_ids \ {user_id}, workouts, sets)

\* rebuild_projections up to the end of _replay_events, for one order the
\* log query can return: the emptied tables refilled from the log.
rebuild_projections(log) == replay_events(log)

\* Where rebuild_projections can be cut short: nowhere, in the deletes before
\* the commit of line 36, in _replay_events before its commit of line 100, in
\* _replay_events before its commit of line 144.
RebuildFaults == {"none", "delete", "replay", "sets"}

\* A delete that removes nothing.
delete_kept(table) == table

\* query(SetProjection).delete(), query(WorkoutProjection).delete().
delete(table) == {}

\* rebuild_projections from its first line to the point where it is cut
\* short: the committed workouts and sets tables, and whether
\* _rebuild_metrics_for_all_users is reached.
rebuild_projections_under(fault, log, workouts, sets) ==
    LET replayed == rebuild_projections(log)
    IN  CASE fault = "delete" ->
                [workouts |-> workouts, sets |-> sets, aggregated |-> FALSE]
          [] fault = "replay" ->
                [workouts |-> delete(workouts), sets |-> delete(sets),
                 aggregated |-> FALSE]
          [] fault = "sets" ->
                [workouts |-> delete(workouts) \cup replayed.workouts,
                 sets |-> delete(sets), aggregated |-> FALSE]
          [] OTHER ->
                [workouts |-> delete(workouts) \cup replayed.workouts,
                 sets |-> delete(sets) \cup replayed.sets, aggregated |-> TRUE]

(***************************************************************************)
(* SyncService.sync_events: the tables and the SyncResult it leaves.        *)
(* projected tells whether update_projections ran and committed,           *)
(* aggregated whether its rebuild_weekly_metrics did; fault is the error   *)
(* that was raised inside update_projections.                              *)
(***************************************************************************)
\* What can go wrong in update_projections: nothing, an exception before its
\* commit of line 320, an exception in its rebuild_weekly_metrics.
SyncFaults == {"none", "projection", "metrics"}

\* The projection changes of the session committed although the update failed.
rollback_projection_kept(committed, session) == session

\* self.db.rollback() of sync_service.py line 184, after the events were
\* committed at line 151: the projection tables stay as committed.
rollback_projection(committed, session) == committed

\* A rollback that also undoes the projection when the aggregator fails.
rolled_back_any(fault) == fault # "none"

\* What the rollback of sync_service.py line 184 can undo: update_projections
\* commits at line 320 and catches the exception of rebuild_weekly_metrics
\* (lines 324-329), so only a failure before its commit reaches the rollback.
rolled_back(fault) == fault = "projection"

sync_events_under(fault, device_id, user_id, batch, table, workouts, sets) ==
    IF ~monotonic(batch)
    THEN [events |-> table, workouts |-> workouts, sets |-> sets, projected |-> FALSE,
          aggregated |-> FALSE, fault |-> "none",
          result |-> SyncResult(0, Len(batch), None, event_ids_of(batch))]
    ELSE
    LET st0 == classify(batch, existing_event_ids(batch, table), 1,
                    [accepted_count |-> 0, rejected_count |-> 0,
                     rejected_event_ids |-> <<>>, last_acked_sequence |-> None,
                     events_to_insert |-> <<>>])
        rows == st0.events_to_insert
    IN  IF rows = <<>>
        THEN [events |-> table, workouts |-> workouts, sets |-> sets,
              projected |-> FALSE, aggregated |-> FALSE, fault |-> "none",
              result |-> SyncResult(st0.accepted_count, st0.rejected_count,
                                    st0.last_acked_sequence, st0.rejected_event_ids)]
        ELSE IF ~IntegrityError(table, rows)
        THEN LET table1 == add_all(table, rows, 1, user_id, device_id)
                 new_event_objects ==
                    CHOOSE s \in order_by_device_sequence(inserted_rows(table1, rows)) : TRUE
                 updated == update_projections(new_event_objects, workouts, sets)
                 proj == IF rolled_back(fault)
                         THEN rollback_projection([workouts |-> workouts, sets |-> sets],
                                                  updated)
                         ELSE updated
                 st1 == count_inserted(rows, 1, st0)
             IN  [events |-> table1, workouts |-> proj.workouts, sets |-> proj.sets,
                  projected |-> ~rolled_back(fault), aggregated |-> fault = "none",
                  fault |-> fault,
                  result |-> SyncResult(st1.accepted_count, st1.rejected_count,
                                        st1.last_acked_sequence, st1.rejected_event_ids)]
        ELSE LET st1 == insert_individually(rows, 1,
                            [accepted_count |-> st0.accepted_count,
                             rejected_count |-> st0.rejected_count,
                             rejected_event_ids |-> st0.rejected_event_ids,
                             last_acked_sequence |-> st0.last_acked_sequence,
                             table |-> table],
                            user_id, device_id)
             IN  [events |-> st1.table, workouts |-> workouts, sets |-> sets,
                  projected |-> FALSE, aggregated |-> FALSE, fault |-> "none",
                  result |-> SyncResult(st1.accepted_count, st1.rejected_count,
                                        st1.last_acked_sequence, st1.rejected_event_ids)]

\* sync_events when nothing fails inside update_projections.
sync_events(device_id, user_id, batch, table, workouts, sets) ==
    sync_events_under("none", device_id, user_id, batch, table, workouts, sets)

(***************************************************************************)
(* api/v1/sync.py: POST /sync.                                             *)
(***************************************************************************)
HTTP_200_OK == 200
HTTP_400_BAD_REQUEST == 400
HTTP_403_FORBIDDEN == 403

\* What get_optional_user_id returns: None without a valid token, else the
\* user of the token; tokens are those of the registered user.
Identities == {None, Some(RealUser)}

\* An endpoint that checks no ownership.
ownership_violation_never(authenticated_user_id, user_id) == FALSE

\* Lines 82-83: authenticated, and the user_id of the request is another's.
ownership_violation(authenticated_user_id, user_id) ==
    authenticated_user_id # None /\ authenticated_user_id # Some(user_id)

\* The endpoint sync_events on the tables: the status code of the answer,
\* the tables it leaves and the SyncResult of the service when it was called.
post_sync(authenticated_user_id, device_id, user_id, batch, table, workouts, sets) ==
    LET refused(status_code) ==
            [status_code |-> status_code, events |-> table, workouts |-> workouts,
             sets |-> sets, aggregated |-> FALSE,
             result |-> SyncResult(0, 0, None, <<>>)]
    IN  IF ownership_violation(authenticated_user_id, user_id)
        THEN refused(HTTP_403_FORBIDDEN)
        ELSE IF sequence_numbers(batch) # sorted(SeqToSet(sequence_numbers(batch)))
        THEN refused(HTTP_400_BAD_REQUEST)
        ELSE LET out == sync_events(device_id, user_id, batch, table, workouts, sets)
             IN  [status_code |-> IF out.result.last_acked_sequence = None
                                  THEN HTTP_400_BAD_REQUEST ELSE HTTP_200_OK,
                  events |-> out.events, workouts |-> out.workouts, sets |-> out.sets,
                  aggregated |-> out.aggregated, result |-> out.result]

(***************************************************************************)
(* services/user_merge_service.py                                          *)
(***************************************************************************)
\* The checks of lines 50-59 only: both users exist.
merge_valid_existence(user_table, anonymous_user_id, real_user_id) ==
    /\ \E u \in user_table : u.user_id = anonymous_user_id
    /\ \E u \in user_table : u.user_id = real_user_id

\* The checks of lines 50-71: FALSE when merge_user_data raises ValueError.
merge_valid(user_table, anonymous_user_id, real_user_id) ==
    /\ \E u \in user_table : u.user_id = anonymous_user_id
    /\ \E u \in user_table : u.user_id = real_user_id
    /\ \A u \in user_table : u.user_id = anonymous_user_id => u.is_anonymous
    /\ \A u \in user_table : u.user_id = real_user_id => ~u.is_anonymous

\* The rows of the anonymous user deleted instead of updated.
reattribute_delete(table, anonymous_user_id, real_user_id) ==
    {row \in table : row.user_id # anonymous_user_id}

\* update(T).where(T.user_id == anonymous_user_id).values(user_id=real_user_id)
reattribute(table, anonymous_user_id, real_user_id) ==
    {IF row.user_id = anonymous_user_id THEN [row EXCEPT !.user_id = real_user_id] ELSE row :
        row \in table}

\* The same update on weekly_metrics, a bag: the copies of a row are those of
\* the rows the update maps to it.
reattribute_metrics(metrics, anonymous_user_id, real_user_id) ==
    LET image == BagToSet(metrics)
        moved == {IF m.user_id = anonymous_user_id
                  THEN [m EXCEPT !.user_id = real_user_id] ELSE m : m \in image}
    IN  [m \in moved |->
            (IF m \in image THEN CopiesIn(m, metrics) ELSE 0)
            + (IF m.user_id = real_user_id
               THEN CopiesIn([m EXCEPT !.user_id = anonymous_user_id], metrics)
               ELSE 0)]

\* The tables merge_user_data reads and writes.
Database ==
    [users |-> users, events |-> events, workouts_projection |-> workouts_projection,
     weekly_metrics |-> weekly_metrics, weekly_reports |-> weekly_reports]

\* A count of every row of the table, whatever the WHERE clause.
rowcount_all(table, user_id) == Cardinality(table)

\* .rowcount of an update on a set of rows and on a bag of rows.
rowcount(table, user_id) == Cardinality({row \in table : row.user_id = user_id})

rowcount_bag(table, user_id) ==
    BagCardinality([row \in {x \in BagToSet(table) : x.user_id = user_id} |->
                        CopiesIn(row, table)])

\* The statements of the transaction of lines 93-126, in order: the four
\* updates, the delete of the anonymous user, the commit.
MergeStatements == 1..6

\* The transaction without the update of weekly_reports.
merge_statement_without_reports(db, k, anonymous_user_id, real_user_id) ==
    CASE k = 1 -> [db EXCEPT !.events =
                        reattribute(@, anonymous_user_id, real_user_id)]
      [] k = 2 -> [db EXCEPT !.workouts_projection =
                        reattribute(@, anonymous_user_id, real_user_id)]
      [] k = 3 -> [db EXCEPT !.weekly_metrics =
                        reattribute_metrics(@, anonymous_user_id, real_user_id)]
      [] k = 5 -> [db EXCEPT !.users = {u \in @ : u.user_id # anonymous_user_id}]
      [] OTHER -> db

merge_statement(db, k, anonymous_user_id, real_user_id) ==
    CASE k = 1 -> [db EXCEPT !.events =
                        reattribute(@, anonymous_user_id, real_user_id)]
      [] k = 2 -> [db EXCEPT !.workouts_projection =
                        reattribute(@, anonymous_user_id, real_user_id)]
      [] k = 3 -> [db EXCEPT !.weekly_metrics =
                        reattribute_metrics(@, anonymous_user_id, real_user_id)]
      [] k = 4 -> [db EXCEPT !.weekly_reports =
                        reattribute_metrics(@, anonymous_user_id, real_user_id)]
      [] k = 5 -> [db EXCEPT !.users = {u \in @ : u.user_id # anonymous_user_id}]
      [] OTHER -> db

\* The try block from statement k on; fault is the statement that raises
\* (0: none).  db is what the session holds, not yet committed.
RECURSIVE merge_transaction(_, _, _, _, _)
merge_transaction(db, k, fault, anonymous_user_id, real_user_id) ==
    IF k \notin MergeStatements THEN [db |-> db, raised |-> FALSE]
    ELSE IF k = fault THEN [db |-> db, raised |-> TRUE]
    ELSE merge_transaction(merge_statement(db, k, anonymous_user_id, real_user_id),
                           k + 1, fault, anonymous_user_id, real_user_id)

\* A failed merge that commits what the session holds.
rollback_kept(committed, session) == session

\* self.db.rollback() of line 139: the committed tables stay.
rollback(committed, session) == committed

\* What merge_user_data returns or raises.
MergeResult(outcome, merged, events_updated, workouts_updated, metrics_updated, reports_updated) ==
    [outcome |-> outcome, merged |-> merged, events_updated |-> events_updated,
     workouts_updated |-> workouts_updated, metrics_updated |-> metrics_updated,
     reports_updated |-> reports_updated]

\* The early return never taken.
already_merged_never(db, anonymous_user_id) == FALSE

\* Lines 73-79: event_count == 0.
already_merged(db, anonymous_user_id) == rowcount(db.events, anonymous_user_id) = 0

\* merge_user_data(anonymous_user_id, real_user_id) on the tables db: the
\* tables it leaves and its answer.  Both raises are ValueErrors: "invalid"
\* is one of lines 55-71, "failed" the "Merge failed" of line 140.
merge_user_data(anonymous_user_id, real_user_id, fault, db) ==
    IF ~merge_valid(db.users, anonymous_user_id, real_user_id)
    THEN [db |-> db, result |-> MergeResult("invalid", FALSE, 0, 0, 0, 0)]
    ELSE IF already_merged(db, anonymous_user_id)
    THEN [db |-> db, result |-> MergeResult("returned", FALSE, 0, 0, 0, 0)]
    ELSE LET t == merge_transaction(db, 1, fault, anonymous_user_id, real_user_id)
         IN  IF t.raised
             THEN [db |-> rollback(db, t.db),
                   result |-> MergeResult("failed", FALSE, 0, 0, 0, 0)]
             ELSE [db |-> t.db,
                   result |-> MergeResult("returned", TRUE,
                                rowcount(db.events, anonymous_user_id),
                                rowcount(db.workouts_projection, anonymous_user_id),
                                rowcount_bag(db.weekly_metrics, anonymous_user_id),
                                rowcount_bag(db.weekly_reports, anonymous_user_id))]

(***************************************************************************)
(* services/ai_report_service.py                                           *)
(***************************************************************************)
\* weekly_reports is a bag of rows; id, report_text and generated_at are
\* left out.
WeeklyReport(user_id, week_start) == [user_id |-> user_id, week_start |-> week_start]

\* generate_weekly_report(user_id, week_start): the existing report if there
\* is one, else a new row.
generate_weekly_report(user_id, week_start, reports) ==
    IF \E row \in BagToSet(reports) :
            row.user_id = user_id /\ row.week_start = week_start
    THEN reports
    ELSE reports (+) SetToBag({WeeklyReport(user_id, week_start)})

\* POST /reports/weekly/regenerate: one report of (user_id, week_start), the
\* one get_weekly_report finds, is deleted, then generate_weekly_report runs;
\* the tables it can leave.
regenerate_weekly_report(user_id, week_start, reports) ==
    LET found == {row \in BagToSet(reports) :
                    row.user_id = user_id /\ row.week_start = week_start}
    IN  IF found = {}
        THEN {generate_weekly_report(user_id, week_start, reports)}
        ELSE {generate_weekly_report(user_id, week_start,
                                     reports (-) SetToBag({existing_report})) :
                existing_report \in found}

(***************************************************************************)
(* State machine.                                                          *)
(***************************************************************************)
NoCall == [phase |-> "none"]

\* The (device, user) pairs that sync.
Clients == {<<"d1", AnonUser>>, <<"d2", RealUser>>}

Init ==
    /\ users = {[user_id |-> AnonUser, is_anonymous |-> TRUE],
                [user_id |-> RealUser, is_anonymous |-> FALSE]}
    /\ events = {}
    /\ workouts_projection = {}
    /\ sets_projection = {}
    /\ weekly_metrics = EmptyBag
    /\ weekly_reports = EmptyBag
    /\ call = NoCall
    /\ inflight = <<>>
    /\ nsync = 0

\* SyncService.sync_events(device_id, user_id, batch), with the
\* rebuild_weekly_metrics that ends update_projections; fault is what goes
\* wrong inside update_projections.
HandleUnder(fault, device_id, user_id, batch, resent) ==
    LET out == sync_events_under(fault, device_id, user_id, batch,
                                 events, workouts_projection, sets_projection)
    IN  /\ events' = out.events
        /\ workouts_projection' = out.workouts
        /\ sets_projection' = out.sets
        /\ weekly_metrics' \in
             IF out.aggregated
             THEN rebuild_weekly_metrics(user_id, out.workouts, out.sets, weekly_metrics)
             ELSE {weekly_metrics}
        /\ call' = [phase |-> "returned", device_id |-> device_id, user_id |-> user_id,
                    events |-> batch, result |-> out.result, resent |-> resent,
                    fault |-> out.fault]
        /\ UNCHANGED <<users, weekly_reports, inflight>>

Handle(device_id, user_id, batch, resent) ==
    HandleUnder("none", device_id, user_id, batch, resent)

\* A client sends a batch and sync_events handles it.
SyncEvents(device_id, user_id, batch) ==
    /\ call = NoCall
    /\ nsync < MaxSyncs
    /\ nsync' = nsync + 1
    /\ Handle(device_id, user_id, batch, FALSE)

\* At-least-once delivery: the client sends the batch of the last call again,
\* and sync_events handles it.
Resend ==
    /\ call # NoCall
    /\ UNCHANGED nsync
    /\ Handle(call.device_id, call.user_id, call.events, TRUE)

\* The client takes the answer.
Receive ==
    /\ call # NoCall
    /\ call' = NoCall
    /\ UNCHANGED <<users, events, workouts_projection, sets_projection,
                   weekly_metrics, weekly_reports, inflight, nsync>>

\* WorkoutProjectionBuilder.rebuild_projections.
RebuildProjections ==
    /\ call = NoCall
    /\ \E log \in order_by_device_sequence(events) :
        LET proj == rebuild_projections(log)
        IN  /\ workouts_projection' = proj.workouts
            /\ sets_projection' = proj.sets
            /\ weekly_metrics' \in
                 rebuild_metrics_for_users({weekly_metrics},
                    {w.user_id : w \in proj.workouts}, proj.workouts, proj.sets)
    /\ UNCHANGED <<users, events, weekly_reports, call, inflight, nsync>>

Next ==
    \/ \E c \in Clients, b \in Batches : SyncEvents(c[1], c[2], b)
    \/ Resend
    \/ Receive
    \/ RebuildProjections

Spec == Init /\ [][Next]_vars

(***************************************************************************)
(* The state machine with the metrics endpoints and the identity merge;    *)
(* clients send well-formed events in shape-valid batches only.            *)
(***************************************************************************)
ValidEventData == {e \in EventData : validate_event_payload(e.event_type, e.payload)}

ValidBatches ==
    {b \in UNION {[1..k -> ValidEventData] : k \in 1..MaxBatch} : monotonic(b)}

\* The Mondays of the weeks the instants fall in.
WeekStarts == {get_week_start(t) : t \in StartInstants \cup EndInstants}

\* GET /metrics/weekly: MetricsService.calculate_weekly_metrics.
CalculateWeeklyMetrics(user_id, week_start) ==
    /\ call = NoCall
    /\ weekly_metrics' \in
         calculate_weekly_metrics(user_id, week_start, workouts_projection,
                                  sets_projection, weekly_metrics)
    /\ UNCHANGED <<users, events, workouts_projection, sets_projection,
                   weekly_reports, call, inflight, nsync>>

\* POST /metrics/weekly/rebuild: MetricsService.rebuild_weekly_metrics.
RebuildWeeklyMetrics(user_id) ==
    /\ call = NoCall
    /\ weekly_metrics' \in
         rebuild_weekly_metrics(user_id, workouts_projection, sets_projection,
                                weekly_metrics)
    /\ UNCHANGED <<users, events, workouts_projection, sets_projection,
                   weekly_reports, call, inflight, nsync>>

\* UserMergeService.merge_user_data, the merges that go through: nothing
\* when the checks raise or the anonymous user has no event, else the four
\* updates and the delete.
MergeUserData(anonymous_user_id, real_user_id) ==
    LET out == merge_user_data(anonymous_user_id, real_user_id, 0, Database)
    IN  /\ call = NoCall
        /\ out.result.merged
        /\ users' = out.db.users
        /\ events' = out.db.events
        /\ workouts_projection' = out.db.workouts_projection
        /\ weekly_metrics' = out.db.weekly_metrics
        /\ weekly_reports' = out.db.weekly_reports
        /\ UNCHANGED <<sets_projection, call, inflight, nsync>>

NextFull ==
    \/ \E c \in Clients, b \in ValidBatches : SyncEvents(c[1], c[2], b)
    \/ Receive
    \/ RebuildProjections
    \/ \E u \in UserIds, w \in WeekStarts : CalculateWeeklyMetrics(u, w)
    \/ \E u \in UserIds : RebuildWeeklyMetrics(u)
    \/ \E a, r \in UserIds : MergeUserData(a, r)

SpecFull == Init /\ [][NextFull]_vars

(***************************************************************************)
(* The state machine with failures inside update_projections.              *)
(***************************************************************************)
\* A client sends a batch; update_projections may fail while it is handled.
SyncEventsUnder(fault, device_id, user_id, batch) ==
    /\ call = NoCall
    /\ nsync < MaxSyncs
    /\ nsync' = nsync + 1
    /\ HandleUnder(fault, device_id, user_id, batch, FALSE)

NextFault ==
    \/ \E f \in SyncFaults, c \in Clients, b \in ValidBatches :
            SyncEventsUnder(f, c[1], c[2], b)
    \/ Receive
    \/ RebuildProjections

SpecFault == Init /\ [][NextFault]_vars

(***************************************************************************)
(* The state machine of the sync endpoint with its status codes.           *)
(***************************************************************************)
\* POST /sync with the identity of the token, and its answer.
PostSync(authenticated_user_id, device_id, user_id, batch) ==
    /\ call = NoCall
    /\ nsync < MaxSyncs
    /\ nsync' = nsync + 1
    /\ LET out == post_sync(authenticated_user_id, device_id, user_id, batch,
                            events, workouts_projection, sets_projection)
       IN  /\ events' = out.events
           /\ workouts_projection' = out.workouts
           /\ sets_projection' = out.sets
           /\ weekly_metrics' \in
                IF out.aggregated
                THEN rebuild_weekly_metrics(user_id, out.workouts, out.sets,
                                            weekly_metrics)
                ELSE {weekly_metrics}
           /\ call' = [phase |-> "answered", status_code |-> out.status_code,
                       authenticated_user_id |-> authenticated_user_id,
                       device_id |-> device_id, user_id |-> user_id,
                       events |-> batch, result |-> out.result]
    /\ UNCHANGED <<users, weekly_reports, inflight>>

NextApi ==
    \/ \E a \in Identities, c \in Clients, b \in Batches : PostSync(a, c[1], c[2], b)
    \/ Receive

SpecApi == Init /\ [][NextApi]_vars

(***************************************************************************)
(* Two devices of one user that sync one batch each, in either order, and  *)
(* the workout list of the user.  Each device works on its own workout,    *)
(* and generates its own event ids and set ids.                            *)
(***************************************************************************)
OrderSlots == {1, 2}

OrderDevice(slot) == IF slot = 1 THEN "d1" ELSE "d2"

OrderUser == AnonUser

OrderWorkout(slot) == IF slot = 1 THEN "w1" ELSE "w2"

OrderSet(slot) == IF slot = 1 THEN "s1" ELSE "s2"

OrderEventIds(slot) == {2 * slot - 1, 2 * slot}

\* The well-formed events of the device of slot; the sequence numbers of the
\* two devices are drawn from the same set.
OrderEventData(slot) ==
    {[event_id |-> i, event_type |-> "WorkoutStarted", sequence_number |-> n,
      payload |-> [workout_id |-> OrderWorkout(slot), started_at |-> t]] :
        i \in OrderEventIds(slot), n \in Seqs, t \in StartInstants}
    \cup
    {[event_id |-> i, event_type |-> "WorkoutEnded", sequence_number |-> n,
      payload |-> [workout_id |-> OrderWorkout(slot), ended_at |-> t]] :
        i \in OrderEventIds(slot), n \in Seqs, t \in EndInstants}
    \cup
    {[event_id |-> i, event_type |-> "SetCompleted", sequence_number |-> n,
      payload |-> [workout_id |-> OrderWorkout(slot), exercise_id |-> x,
                   set_id |-> OrderSet(slot), reps |-> 5, weight |-> 10,
                   completed_at |-> t]] :
        i \in OrderEventIds(slot), n \in Seqs, x \in ExerciseIds, t \in StartInstants}

OrderBatches(slot) ==
    {b \in UNION {[1..k -> OrderEventData(slot)] : k \in 1..MaxBatch} :
        /\ monotonic(b)
        /\ \A i, j \in DOMAIN b : i # j => b[i].event_id # b[j].event_id}

\* ORDER BY started_at DESC: every row sequence the query of
\* get_workout_history may return for the rows in S.
RECURSIVE order_by_started_at_desc(_)
order_by_started_at_desc(S) ==
    IF S = {} THEN {<<>>}
    ELSE UNION {
            {<<r>> \o rest : rest \in order_by_started_at_desc(S \ {r})} :
                r \in {x \in S : \A y \in S : x.started_at >= y.started_at}}

\* The device of slot syncs its batch; the record of the call keeps its
\* turn.
SyncInTurn(slot, batch) ==
    /\ call = NoCall
    /\ slot \notin DOMAIN inflight
    /\ LET out == sync_events(OrderDevice(slot), OrderUser, batch,
                              events, workouts_projection, sets_projection)
       IN  /\ events' = out.events
           /\ workouts_projection' = out.workouts
           /\ sets_projection' = out.sets
           /\ weekly_metrics' \in
                IF out.aggregated
                THEN rebuild_weekly_metrics(OrderUser, out.workouts, out.sets,
                                            weekly_metrics)
                ELSE {weekly_metrics}
           /\ inflight' = inflight @@ (slot :>
                    [device_id |-> OrderDevice(slot), user_id |-> OrderUser,
                     events |-> batch, result |-> out.result,
                     turn |-> Cardinality(DOMAIN inflight) + 1])
    /\ UNCHANGED <<users, weekly_reports, call, nsync>>

\* GET /workouts?user_id=...: the workout rows of the user, newest first.
GetWorkoutHistory(user_id) ==
    /\ call = NoCall
    /\ \E workouts \in order_by_started_at_desc(
                            {w \in workouts_projection : w.user_id = user_id}) :
            call' = [phase |-> "listed", user_id |-> user_id, workouts |-> workouts]
    /\ UNCHANGED <<users, events, workouts_projection, sets_projection,
                   weekly_metrics, weekly_reports, inflight, nsync>>

NextOrder ==
    \/ \E slot \in OrderSlots : \E b \in OrderBatches(slot) : SyncInTurn(slot, b)
    \/ \E u \in UserIds : GetWorkoutHistory(u)
    \/ Receive

SpecOrder == Init /\ [][NextOrder]_vars

(***************************************************************************)
(* The weekly metrics endpoint on projection tables of two users: workouts *)
(* on the Sunday of one week and the Monday of the next, completed or in   *)
(* progress, with sets of one or two exercises.                            *)
(***************************************************************************)
MetricsWorkoutIds == {"w1", "w2"}

MetricsStartInstants == {6, 7}

MetricsExerciseIds == {"x1", "x2"}

MetricsWorkoutRows(workout_id) ==
    {WorkoutProjection(workout_id, u, t,
                       IF st = "completed" THEN Some(t + 1) ELSE None, st) :
        u \in UserIds, t \in MetricsStartInstants, st \in {"in_progress", "completed"}}

\* The workouts tables: at most one row for each workout_id.
MetricsWorkoutTables ==
    {r1 \cup r2 :
        r1 \in {{}} \cup {{w} : w \in MetricsWorkoutRows("w1")},
        r2 \in {{}} \cup {{w} : w \in MetricsWorkoutRows("w2")}}

MetricsSetRows(set_id, reps, exercise_ids, workouts) ==
    {[set_id |-> set_id, workout_id |-> w.workout_id, exercise_id |-> x,
      reps |-> reps, weight |-> 10, completed_at |-> w.started_at] :
        w \in workouts, x \in exercise_ids}

\* The sets tables over a workouts table: at most one row for each set_id,
\* each for a workout of the table.
MetricsSetTables(workouts) ==
    {r1 \cup r2 :
        r1 \in {{}} \cup {{x} : x \in MetricsSetRows("s1", 5, {"x1"}, workouts)},
        r2 \in {{}} \cup {{x} : x \in MetricsSetRows("s2", 3, MetricsExerciseIds,
                                                     workouts)}}

MetricsWeeks == {get_week_start(t) : t \in MetricsStartInstants}

InitMetrics ==
    /\ users = {[user_id |-> AnonUser, is_anonymous |-> TRUE],
                [user_id |-> RealUser, is_anonymous |-> FALSE]}
    /\ events = {}
    /\ workouts_projection \in MetricsWorkoutTables
    /\ sets_projection \in MetricsSetTables(workouts_projection)
    /\ weekly_metrics = EmptyBag
    /\ weekly_reports = EmptyBag
    /\ call = NoCall
    /\ inflight = <<>>
    /\ nsync = 0

\* GET /metrics/weekly without a token: calculate_weekly_metrics and the row
\* it returns.
GetWeeklyMetrics(user_id, week_start) ==
    /\ call = NoCall
    /\ weekly_metrics' \in
         calculate_weekly_metrics(user_id, week_start, workouts_projection,
                                  sets_projection, weekly_metrics)
    /\ \E metrics \in BagToSet(weekly_metrics') :
        /\ metrics.user_id = user_id
        /\ metrics.week_start = week_start
        /\ \/ CopiesIn(metrics, weekly_metrics') > CopiesIn(metrics, weekly_metrics)
           \/ weekly_metrics' = weekly_metrics
        /\ call' = [phase |-> "metrics", user_id |-> user_id,
                    week_start |-> week_start, metrics |-> metrics]
    /\ UNCHANGED <<users, events, workouts_projection, sets_projection,
                   weekly_reports, inflight, nsync>>

\* POST /metrics/weekly/rebuild without a token: rebuild_weekly_metrics and
\* its answer.
PostRebuildWeeklyMetrics(user_id) ==
    /\ call = NoCall
    /\ weekly_metrics' \in
         rebuild_weekly_metrics(user_id, workouts_projection, sets_projection,
                                weekly_metrics)
    /\ call' = [phase |-> "metrics_rebuilt", user_id |-> user_id]
    /\ UNCHANGED <<users, events, workouts_projection, sets_projection,
                   weekly_reports, inflight, nsync>>

NextMetrics ==
    \/ \E u \in UserIds, w \in MetricsWeeks : GetWeeklyMetrics(u, w)
    \/ \E u \in UserIds : PostRebuildWeeklyMetrics(u)
    \/ Receive

SpecMetrics == InitMetrics /\ [][NextMetrics]_vars

(***************************************************************************)
(* The state machine with rebuilds that are cut short.                     *)
(***************************************************************************)
\* POST /projections/rebuild: rebuild_projections, cut short at fault; the
\* call record keeps the projections as they were when the call started.
RebuildProjectionsUnder(fault) ==
    /\ call = NoCall
    /\ \E log \in order_by_device_sequence(events) :
        LET proj == rebuild_projections_under(fault, log, workouts_projection,
                                              sets_projection)
        IN  /\ workouts_projection' = proj.workouts
            /\ sets_projection' = proj.sets
            /\ weekly_metrics' \in
                 IF proj.aggregated
                 THEN rebuild_metrics_for_users({weekly_metrics},
                        {w.user_id : w \in proj.workouts}, proj.workouts, proj.sets)
                 ELSE {weekly_metrics}
    /\ call' = [phase |-> "rebuilt", fault |-> fault,
                workouts_before |-> workouts_projection,
                sets_before |-> sets_projection]
    /\ UNCHANGED <<users, events, weekly_reports, inflight, nsync>>

NextRebuild ==
    \/ \E c \in Clients, b \in ValidBatches : SyncEvents(c[1], c[2], b)
    \/ Receive
    \/ \E f \in RebuildFaults : RebuildProjectionsUnder(f)

SpecRebuild == Init /\ [][NextRebuild]_vars

(***************************************************************************)
(* Successive calls of one device: the device has the answer of its last   *)
(* call and sends its next batch.                                          *)
(***************************************************************************)
\* The next sync_events call of the device whose answer call holds.
SyncNext(batch) ==
    /\ call.phase = "returned"
    /\ nsync < MaxSyncs
    /\ nsync' = nsync + 1
    /\ Handle(call.device_id, call.user_id, batch, FALSE)

NextAck ==
    \/ \E c \in Clients, b \in Batches : SyncEvents(c[1], c[2], b)
    \/ \E b \in Batches : SyncNext(b)
    \/ Receive

SpecAck == Init /\ [][NextAck]_vars

(***************************************************************************)
(* Two sync_events calls that run concurrently.  Each call is a sequence   *)
(* of database round trips: the existence probe, the batch insert and its  *)
(* commit, the reads of update_projections, its commit, and in the         *)
(* fallback path one insert and commit per event.                          *)
(***************************************************************************)
RaceSlots == {1, 2}

\* The device and the user of each of the two calls: two devices of one user.
RaceDevice(slot) == IF slot = 1 THEN "d1" ELSE "d2"

RaceUser(slot) == AnonUser

\* The events the two devices send: well-formed, the event with id k at
\* sequence number k.
RaceEventData ==
    {[event_id |-> k, event_type |-> c[1], payload |-> c[2], sequence_number |-> k] :
        k \in 1..MaxRaceEvents,
        c \in {x \in Catalog : validate_event_payload(x[1], x[2])}}

RaceBatches ==
    {b \in UNION {[1..k -> RaceEventData] : k \in 1..MaxRaceEvents} : monotonic(b)}

\* What the session of update_projections holds before its commit, computed
\* from the rows its queries returned: the rows it changed or added, and the
\* keys of those it adds.
projection_session(new_events, workouts, sets) ==
    LET updated == update_projections(new_events, workouts, sets)
    IN  [workouts |-> updated.workouts \ workouts,
         sets |-> updated.sets \ sets,
         new_workouts |-> {w.workout_id : w \in updated.workouts}
                            \ {w.workout_id : w \in workouts},
         new_sets |-> {x.set_id : x \in updated.sets} \ {x.set_id : x \in sets}]

\* The primary keys of workouts_projection and sets_projection
\* (models/projections.py): the flush or commit of the session raises
\* IntegrityError when a row it adds has a key that is stored by now.
ProjectionIntegrityError(session, workouts, sets) ==
    \/ \E w \in workouts : w.workout_id \in session.new_workouts
    \/ \E x \in sets : x.set_id \in session.new_sets

\* The commit of line 320: the rows of the session replace the stored rows of
\* the same key.
commit_session(session, workouts, sets) ==
    [workouts |-> {w \in workouts :
                        \A v \in session.workouts : v.workout_id # w.workout_id}
                    \cup session.workouts,
     sets |-> {x \in sets : \A y \in session.sets : y.set_id # x.set_id}
                    \cup session.sets]

\* The existence probe and the classification loop: lines 67-134.
RaceProbe(slot, batch) ==
    /\ slot \notin DOMAIN inflight
    /\ LET st0 == IF monotonic(batch)
                  THEN classify(batch, existing_event_ids(batch, events), 1,
                            [accepted_count |-> 0, rejected_count |-> 0,
                             rejected_event_ids |-> <<>>, last_acked_sequence |-> None,
                             events_to_insert |-> <<>>])
                  ELSE [accepted_count |-> 0, rejected_count |-> Len(batch),
                        rejected_event_ids |-> event_ids_of(batch),
                        last_acked_sequence |-> None, events_to_insert |-> <<>>]
       IN  inflight' = inflight @@ (slot :>
                [pc |-> IF st0.events_to_insert = <<>> THEN "done" ELSE "insert",
                 device_id |-> RaceDevice(slot), user_id |-> RaceUser(slot),
                 events |-> batch, st |-> st0, next |-> 1,
                 session |-> projection_session(<<>>, {}, {}),
                 commits |-> 0,
                 overlapped |-> \E o \in DOMAIN inflight : inflight[o].pc # "done",
                 raced |-> \E o \in DOMAIN inflight : inflight[o].pc = "insert"])
    /\ UNCHANGED <<users, events, workouts_projection, sets_projection,
                   weekly_metrics, weekly_reports, call, nsync>>

\* The batch insert and its commit, lines 137-151; on IntegrityError the
\* rollback of line 199.
RaceInsert(slot) ==
    /\ slot \in DOMAIN inflight
    /\ inflight[slot].pc = "insert"
    /\ LET c == inflight[slot]
           rows == c.st.events_to_insert
       IN  IF IntegrityError(events, rows)
           THEN /\ inflight' = [inflight EXCEPT ![slot].pc = "fallback"]
                /\ UNCHANGED events
           ELSE /\ events' = add_all(events, rows, 1, c.user_id, c.device_id)
                /\ inflight' = [inflight EXCEPT ![slot].pc = "read",
                                                ![slot].commits = @ + 1]
    /\ UNCHANGED <<users, workouts_projection, sets_projection,
                   weekly_metrics, weekly_reports, call, nsync>>

\* The query of lines 159-168 and the loops of update_projections up to its
\* commit, on the rows stored now.
RaceRead(slot) ==
    /\ slot \in DOMAIN inflight
    /\ inflight[slot].pc = "read"
    /\ \E new_event_objects \in
            order_by_device_sequence(inserted_rows(events,
                                                   inflight[slot].st.events_to_insert)) :
         inflight' = [inflight EXCEPT
            ![slot].pc = "commit",
            ![slot].session = projection_session(new_event_objects,
                                                 workouts_projection, sets_projection)]
    /\ UNCHANGED <<users, events, workouts_projection, sets_projection,
                   weekly_metrics, weekly_reports, call, nsync>>

\* The commit of update_projections and its rebuild_weekly_metrics, or the
\* IntegrityError and the rollback of sync_service.py line 184; then the
\* counting of lines 189-193.
RaceCommit(slot) ==
    /\ slot \in DOMAIN inflight
    /\ inflight[slot].pc = "commit"
    /\ LET c == inflight[slot]
           st1 == count_inserted(c.st.events_to_insert, 1, c.st)
       IN  /\ inflight' = [inflight EXCEPT ![slot].pc = "done", ![slot].st = st1]
           /\ IF ProjectionIntegrityError(c.session, workouts_projection, sets_projection)
              THEN UNCHANGED <<workouts_projection, sets_projection, weekly_metrics>>
              ELSE LET proj == commit_session(c.session, workouts_projection,
                                              sets_projection)
                   IN  /\ workouts_projection' = proj.workouts
                       /\ sets_projection' = proj.sets
                       /\ weekly_metrics' \in
                            rebuild_weekly_metrics(c.user_id, proj.workouts, proj.sets,
                                                   weekly_metrics)
    /\ UNCHANGED <<users, events, weekly_reports, call, nsync>>

\* One turn of the loop of lines 200-234: one insert and its commit, or the
\* IntegrityError that counts the event as accepted.
RaceFallback(slot) ==
    /\ slot \in DOMAIN inflight
    /\ inflight[slot].pc = "fallback"
    /\ LET c == inflight[slot]
           rows == c.st.events_to_insert
           row == rows[c.next]
           counted == [c.st EXCEPT
                            !.accepted_count = @ + 1,
                            !.last_acked_sequence = ack(@, row.sequence_number)]
           pc == IF c.next = Len(rows) THEN "done" ELSE "fallback"
       IN  IF IntegrityError(events, <<row>>)
           THEN /\ inflight' = [inflight EXCEPT ![slot].pc = pc, ![slot].st = counted,
                                                ![slot].next = @ + 1]
                /\ UNCHANGED events
           ELSE /\ events' = add(events, row, c.user_id, c.device_id)
                /\ inflight' = [inflight EXCEPT ![slot].pc = pc, ![slot].st = counted,
                                                ![slot].next = @ + 1,
                                                ![slot].commits = @ + 1]
    /\ UNCHANGED <<users, workouts_projection, sets_projection,
                   weekly_metrics, weekly_reports, call, nsync>>

NextRace ==
    \/ \E slot \in RaceSlots, b \in RaceBatches : RaceProbe(slot, b)
    \/ \E slot \in RaceSlots : RaceInsert(slot)
    \/ \E slot \in RaceSlots : RaceRead(slot)
    \/ \E slot \in RaceSlots : RaceCommit(slot)
    \/ \E slot \in RaceSlots : RaceFallback(slot)

SpecRace == Init /\ [][NextRace]_vars

(***************************************************************************)
(* The state machine of the identity merge: the merge endpoint with its    *)
(* answer, between syncs of single events, metrics and report requests.    *)
(***************************************************************************)
\* A user id that has no row in users.
NoUser == "ux"

MergeUsers == UserIds \cup {NoUser}

\* 0: no statement of the transaction raises; k: statement k raises.
MergeFaults == {0} \cup MergeStatements

\* Batches of one well-formed event, the device's k-th event having id k.
MergeBatches ==
    {b \in ValidBatches : Len(b) = 1 /\ b[1].event_id = b[1].sequence_number}

\* The week the clients of this machine ask metrics and reports for.
MergeWeeks == {get_week_start(t) : t \in StartInstants}

\* GET /reports/weekly: AIReportService.generate_weekly_report.
GenerateWeeklyReport(user_id, week_start) ==
    /\ call = NoCall
    /\ weekly_reports' = generate_weekly_report(user_id, week_start, weekly_reports)
    /\ UNCHANGED <<users, events, workouts_projection, sets_projection,
                   weekly_metrics, call, inflight, nsync>>

\* POST /merge: merge_user_data and its answer.
HandleMerge(anonymous_user_id, real_user_id, fault, again) ==
    LET out == merge_user_data(anonymous_user_id, real_user_id, fault, Database)
    IN  /\ users' = out.db.users
        /\ events' = out.db.events
        /\ workouts_projection' = out.db.workouts_projection
        /\ weekly_metrics' = out.db.weekly_metrics
        /\ weekly_reports' = out.db.weekly_reports
        /\ call' = [phase |-> "merged", anonymous_user_id |-> anonymous_user_id,
                    real_user_id |-> real_user_id, result |-> out.result,
                    again |-> again]
        /\ UNCHANGED <<sets_projection, inflight, nsync>>

MergeCall(anonymous_user_id, real_user_id, fault) ==
    /\ call = NoCall
    /\ HandleMerge(anonymous_user_id, real_user_id, fault, FALSE)

\* The client calls the merge endpoint again with the same two users.
MergeAgain(fault) ==
    /\ call.phase = "merged"
    /\ ~call.again
    /\ HandleMerge(call.anonymous_user_id, call.real_user_id, fault, TRUE)

NextMerge ==
    \/ \E c \in Clients, b \in MergeBatches : SyncEvents(c[1], c[2], b)
    \/ Receive
    \/ RebuildProjections
    \/ \E u \in UserIds, w \in MergeWeeks : CalculateWeeklyMetrics(u, w)
    \/ \E u \in UserIds, w \in MergeWeeks : GenerateWeeklyReport(u, w)
    \/ \E a, r \in MergeUsers, fault \in MergeFaults : MergeCall(a, r, fault)
    \/ \E fault \in MergeFaults : MergeAgain(fault)

SpecMerge == Init /\ [][NextMerge]_vars

(***************************************************************************)
(* The state machine of the weekly reports: generation, regeneration and   *)
(* the identity merge, between syncs of single events.                     *)
(***************************************************************************)
\* POST /reports/weekly/regenerate and its answer.
RegenerateWeeklyReport(user_id, week_start) ==
    /\ call = NoCall
    /\ weekly_reports' \in regenerate_weekly_report(user_id, week_start, weekly_reports)
    /\ call' = [phase |-> "regenerated", user_id |-> user_id, week_start |-> week_start]
    /\ UNCHANGED <<users, events, workouts_projection, sets_projection,
                   weekly_metrics, inflight, nsync>>

NextReports ==
    \/ \E c \in Clients, b \in MergeBatches : SyncEvents(c[1], c[2], b)
    \/ Receive
    \/ \E u \in UserIds, w \in WeekStarts : GenerateWeeklyReport(u, w)
    \/ \E u \in UserIds, w \in WeekStarts : RegenerateWeeklyReport(u, w)
    \/ \E a, r \in UserIds : MergeCall(a, r, 0)

SpecReports == Init /\ [][NextReports]_vars

(***************************************************************************)
(* Properties.                                                             *)
(***************************************************************************)
Returned == call.phase = "returned"

\* The batch of the call that has just returned, in the claims' own terms.
StrictlyIncreasing(batch) ==
    \A i, j \in DOMAIN batch : i < j => batch[i].sequence_number < batch[j].sequence_number

\* Section 4.1 of the specification: the four schemas and their constraints.
WellFormed(e) ==
    \/ /\ e.event_type = "WorkoutStarted"
       /\ {"workout_id", "started_at"} \subseteq DOMAIN e.payload
    \/ /\ e.event_type = "WorkoutEnded"
       /\ {"workout_id", "ended_at"} \subseteq DOMAIN e.payload
    \/ /\ e.event_type = "ExerciseAdded"
       /\ {"workout_id", "exercise_id", "exercise_name"} \subseteq DOMAIN e.payload
    \/ /\ e.event_type = "SetCompleted"
       /\ {"workout_id", "exercise_id", "set_id", "reps", "weight", "completed_at"}
            \subseteq DOMAIN e.payload
       /\ e.payload.reps > 0
       /\ e.payload.weight > 0

WellFormedOnes(batch) == SelectSeq(batch, WellFormed)

StoredIds == {e.event_id : e \in events}

\* C1: a batch sent again right after sync_events handled it (any number of
\* times) leaves the event rows and the workout and set projection rows as
\* the first call left them.
C1_ResendChangesNothing ==
    [][(call'.phase = "returned" /\ call'.resent)
        => UNCHANGED <<events, workouts_projection, sets_projection>>]_vars

\* A resent batch whose events were stored and projected by the first call.
C1_Witness ==
    /\ Returned
    /\ call.resent
    /\ call.result.accepted_count = Len(call.events)
    /\ \A i \in DOMAIN call.events : call.events[i].event_id \in StoredIds
    /\ workouts_projection # {}
    /\ sets_projection # {}

\* C2: a rebuild changes no workout projection row and no set projection row
\* (a step that keeps the event log and the call state and is not a sync is a
\* rebuild_projections call).
C2_RebuildChangesNoRow ==
    [][(call = NoCall /\ call' = NoCall /\ events' = events)
        => UNCHANGED <<workouts_projection, sets_projection>>]_vars

\* C3: on the current event log, a second rebuild_projections leaves what the
\* first one left: whatever order the log query returns and whichever row
\* first() picks, the tables after two rebuilds equal those after one.
C3_RebuildTwiceSameAsOnce ==
    \A log1 \in order_by_device_sequence(events) :
        LET once == rebuild_projections(log1)
        IN  \A m1 \in rebuild_metrics_for_users({weekly_metrics},
                        {w.user_id : w \in once.workouts}, once.workouts, once.sets) :
            \A log2 \in order_by_device_sequence(events) :
                LET twice == rebuild_projections(log2)
                IN  /\ twice = once
                    /\ \A m2 \in rebuild_metrics_for_users({m1},
                            {w.user_id : w \in twice.workouts}, twice.workouts, twice.sets) :
                        m2 = m1

\* C4: no two stored event rows share (device_id, sequence_number).
C4_DeviceSequenceUnique ==
    \A e1, e2 \in events :
        (e1.device_id = e2.device_id /\ e1.sequence_number = e2.sequence_number)
            => e1 = e2

\* C5: every stored set projection row references a workout projection row
\* that exists.
C5_SetReferencesWorkout ==
    \A s \in sets_projection : has_workout(workouts_projection, s.workout_id)

\* A set row of a workout that was merged into the real user's account, with
\* a SetCompleted in the log (synced, rebuilt or both).
C5_Witness ==
    /\ sets_projection # {}
    /\ \A u \in users : ~u.is_anonymous
    /\ \A w \in workouts_projection : w.user_id = RealUser
    /\ \E e \in events : e.event_type = "SetCompleted" /\ e.device_id = "d1"

\* C6: weekly_metrics holds at most one row for each (user_id, week_start).
C6_OneRowPerUserWeek ==
    /\ \A m \in BagToSet(weekly_metrics) : CopiesIn(m, weekly_metrics) = 1
    /\ \A m1, m2 \in BagToSet(weekly_metrics) :
            (m1.user_id = m2.user_id /\ m1.week_start = m2.week_start) => m1 = m2

\* C7: a batch whose sequence numbers are not strictly increasing is rejected
\* whole: accepted_count 0, every event_id rejected, last_acked_sequence null,
\* no event row and no projection row written.
C7_ShapeRejection ==
    [][(call'.phase = "returned" /\ ~StrictlyIncreasing(call'.events))
        => /\ call'.result.accepted_count = 0
           /\ call'.result.rejected_count = Len(call'.events)
           /\ call'.result.rejected_event_ids = event_ids_of(call'.events)
           /\ call'.result.last_acked_sequence = None
           /\ UNCHANGED <<events, workouts_projection, sets_projection>>]_vars

\* A rejected batch with a duplicate or a reordering, sent to a non-empty store.
C7_Witness ==
    /\ Returned
    /\ ~StrictlyIncreasing(call.events)
    /\ \E i \in DOMAIN call.events : WellFormed(call.events[i])
    /\ call.result.rejected_count = Len(call.events)
    /\ events # {}

\* C8: in a shape-valid batch an event that fails validation is rejected
\* alone: it is in rejected_event_ids, no row is stored for it, the tables
\* end as if the batch had been sent without it, and every well-formed event
\* of the batch is accepted and has its event_id stored.
C8_PartialValidity ==
    [][(call'.phase = "returned" /\ StrictlyIncreasing(call'.events))
        => LET batch == call'.events
               good == WellFormedOnes(batch)
               alone == sync_events(call'.device_id, call'.user_id, good, events,
                                    workouts_projection, sets_projection)
           IN  /\ \A i \in DOMAIN batch :
                    ~WellFormed(batch[i])
                        => batch[i].event_id \in SeqToSet(call'.result.rejected_event_ids)
               /\ call'.result.rejected_count = Len(batch) - Len(good)
               /\ call'.result.accepted_count = Len(good)
               /\ \A i \in DOMAIN good : good[i].event_id \in {e.event_id : e \in events'}
               /\ \A e \in events' \ events :
                    \E i \in DOMAIN good :
                        /\ good[i].event_id = e.event_id
                        /\ good[i].event_type = e.event_type
                        /\ good[i].payload = e.payload
               /\ events' = alone.events
               /\ workouts_projection' = alone.workouts
               /\ sets_projection' = alone.sets]_vars

\* Scenario 3: a valid WorkoutStarted at 1 and a SetCompleted with reps = 0 at
\* 2: one accepted, one rejected, one in_progress workout, no set.
C8_Witness ==
    /\ Returned
    /\ ~call.resent
    /\ Len(call.events) = 2
    /\ call.events[1].event_type = "WorkoutStarted" /\ WellFormed(call.events[1])
    /\ call.events[2].event_type = "SetCompleted" /\ ~WellFormed(call.events[2])
    /\ call.events[1].event_id # call.events[2].event_id
    /\ call.result.accepted_count = 1
    /\ call.result.rejected_event_ids = <<call.events[2].event_id>>
    /\ \E w \in workouts_projection : w.status = "in_progress"
    /\ sets_projection = {}

\* The sequence numbers of the accepted events of a batch: none when the
\* batch is rejected whole, else those of the well-formed events.
AcceptedSeqs(batch) ==
    IF StrictlyIncreasing(batch)
    THEN {batch[i].sequence_number : i \in {j \in DOMAIN batch : WellFormed(batch[j])}}
    ELSE {}

\* C9: last_acked_sequence is the largest sequence_number of the accepted
\* events (new or already present) and null exactly when none was accepted.
C9_AckIsMaxAccepted ==
    Returned =>
        /\ call.result.last_acked_sequence =
            (IF AcceptedSeqs(call.events) = {} THEN None
             ELSE Some(Max(AcceptedSeqs(call.events))))
        /\ (call.result.last_acked_sequence = None) <=> (call.result.accepted_count = 0)

\* A new event at sequence 1 and an already stored one at a higher sequence.
C9_Witness ==
    /\ Returned
    /\ ~call.resent
    /\ Len(call.events) = 2
    /\ call.result.accepted_count = 2
    /\ call.result.last_acked_sequence = Some(call.events[2].sequence_number)
    /\ \E e \in events :
        /\ e.event_id = call.events[2].event_id
        /\ e.sequence_number # call.events[2].sequence_number

\* The sequence numbers of the batch that device d holds a row for.
DurableSeqs(batch, device_id) ==
    {batch[i].sequence_number : i \in {j \in DOMAIN batch :
        \E e \in events : /\ e.device_id = device_id
                          /\ e.sequence_number = batch[j].sequence_number}}

\* C10 as stated: when last_acked_sequence = n, device d has a stored row with
\* sequence_number n, and n is the largest sequence_number of the batch for
\* which that is true.
C10_AckedRowOfDevice ==
    (Returned /\ call.result.last_acked_sequence # None) =>
        LET n == call.result.last_acked_sequence[1]
        IN  /\ n \in DurableSeqs(call.events, call.device_id)
            /\ n = Max(DurableSeqs(call.events, call.device_id))

\* C10 as amended: when last_acked_sequence = n, the store holds a row with
\* the event_id the batch carries at sequence_number n (under whatever device
\* and sequence_number that event_id was first stored), and no accepted event
\* of the batch, that is no event of it that passes validation, has a larger
\* sequence_number.
C10_AckedEventIdStored ==
    (Returned /\ call.result.last_acked_sequence # None) =>
        LET n == call.result.last_acked_sequence[1]
        IN  /\ \E i \in DOMAIN call.events :
                /\ call.events[i].sequence_number = n
                /\ call.events[i].event_id \in StoredIds
            /\ \A i \in DOMAIN call.events :
                WellFormed(call.events[i]) => call.events[i].sequence_number <= n

\* An ack for an event_id that is stored under another device.
C10_Witness ==
    /\ Returned
    /\ call.result.last_acked_sequence # None
    /\ \A e \in events : e.device_id # call.device_id
    /\ events # {}

\* The rows of every table.
Tables ==
    <<users, events, workouts_projection, sets_projection, weekly_metrics,
      weekly_reports>>

\* A failed precondition of merge(a, r), on the rows of users.
PreconditionViolated(a, r) ==
    \/ \A u \in users : u.user_id # a
    \/ \A u \in users : u.user_id # r
    \/ \E u \in users : u.user_id = a /\ ~u.is_anonymous
    \/ \E u \in users : u.user_id = r /\ u.is_anonymous

\* C11: after a merge(a, r) that succeeds, no row of events, workout
\* projections, weekly metrics or weekly reports has user_id a, every row that
\* had user_id a is there with user_id r, and the user row of a is gone.
C11_MergeReattributes ==
    [][(call'.phase = "merged" /\ call'.result.merged)
        => LET a == call'.anonymous_user_id
               r == call'.real_user_id
           IN  /\ \E e \in events : e.user_id = a
               /\ \A e \in events' : e.user_id # a
               /\ \A w \in workouts_projection' : w.user_id # a
               /\ \A m \in BagToSet(weekly_metrics') : m.user_id # a
               /\ \A x \in BagToSet(weekly_reports') : x.user_id # a
               /\ \A e \in events :
                    e.user_id = a => [e EXCEPT !.user_id = r] \in events'
               /\ \A w \in workouts_projection :
                    w.user_id = a => [w EXCEPT !.user_id = r] \in workouts_projection'
               /\ \A m \in BagToSet(weekly_metrics) :
                    m.user_id = a =>
                        CopiesIn([m EXCEPT !.user_id = r], weekly_metrics')
                            = CopiesIn(m, weekly_metrics)
                                + CopiesIn([m EXCEPT !.user_id = r], weekly_metrics)
               /\ \A x \in BagToSet(weekly_reports) :
                    x.user_id = a =>
                        CopiesIn([x EXCEPT !.user_id = r], weekly_reports')
                            = CopiesIn(x, weekly_reports)
                                + CopiesIn([x EXCEPT !.user_id = r], weekly_reports)
               /\ \A u \in users' : u.user_id # a]_vars

\* A merge that moved rows of all four tables.
C11_Witness ==
    /\ call.phase = "merged"
    /\ call.result.merged
    /\ call.result.events_updated > 0
    /\ call.result.workouts_updated > 0
    /\ call.result.metrics_updated > 0
    /\ call.result.reports_updated > 0

\* C12: merge(a, r) called again after it succeeded returns merged = false
\* with all counts 0 and changes no row.
C12_SecondMergeIsNoOp ==
    [][(/\ call.phase = "merged"
        /\ call.result.merged
        /\ call'.phase = "merged"
        /\ call'.again)
        => /\ call'.result = MergeResult("returned", FALSE, 0, 0, 0, 0)
           /\ UNCHANGED Tables]_vars

\* C13: merge(a, r) raises and changes no row when a has no user row, r has
\* no user row, a is not anonymous or r is anonymous.
C13_MergePreconditions ==
    [][(/\ call'.phase = "merged"
        /\ PreconditionViolated(call'.anonymous_user_id, call'.real_user_id))
        => /\ call'.result.outcome = "invalid"
           /\ ~call'.result.merged
           /\ UNCHANGED Tables]_vars

\* A refused merge of a registered user who has events to lose.
C13_Witness ==
    /\ call.phase = "merged"
    /\ call.result.outcome = "invalid"
    /\ call.anonymous_user_id = RealUser
    /\ call.real_user_id = AnonUser
    /\ \E e \in events : e.user_id = RealUser
    /\ \E e \in events : e.user_id = AnonUser

\* C14: a merge whose transaction fails leaves every user_id as it was and
\* keeps the user row of a; and every merge call either changes no row or
\* leaves no row of a in any of the four tables.
C14_MergeAtomic ==
    [][call'.phase = "merged"
        => LET a == call'.anonymous_user_id
           IN  /\ call'.result.outcome = "failed"
                    => /\ UNCHANGED Tables
                       /\ \E u \in users' : u.user_id = a
               /\ \/ UNCHANGED Tables
                  \/ /\ \A e \in events' : e.user_id # a
                     /\ \A w \in workouts_projection' : w.user_id # a
                     /\ \A m \in BagToSet(weekly_metrics') : m.user_id # a
                     /\ \A x \in BagToSet(weekly_reports') : x.user_id # a
                     /\ \A u \in users' : u.user_id # a]_vars

\* A failed merge of a user with rows in all four tables.
C14_Witness ==
    /\ call.phase = "merged"
    /\ call.result.outcome = "failed"
    /\ \E e \in events : e.user_id = call.anonymous_user_id
    /\ \E w \in workouts_projection : w.user_id = call.anonymous_user_id
    /\ \E m \in BagToSet(weekly_metrics) : m.user_id = call.anonymous_user_id
    /\ \E x \in BagToSet(weekly_reports) : x.user_id = call.anonymous_user_id

\* C15: merge(a, r) with valid users and no event of a returns merged = false
\* with all counts 0 and changes no row.
C15_NoEventsNoMerge ==
    [][(/\ call'.phase = "merged"
        /\ ~PreconditionViolated(call'.anonymous_user_id, call'.real_user_id)
        /\ \A e \in events : e.user_id # call'.anonymous_user_id)
        => /\ call'.result = MergeResult("returned", FALSE, 0, 0, 0, 0)
           /\ UNCHANGED Tables]_vars

\* A no-op merge of a user who has no event but a metrics and a report row.
C15_Witness ==
    /\ call.phase = "merged"
    /\ ~call.again
    /\ call.result.outcome = "returned"
    /\ ~call.result.merged
    /\ \E u \in users : u.user_id = call.anonymous_user_id
    /\ \E m \in BagToSet(weekly_metrics) : m.user_id = call.anonymous_user_id
    /\ \E x \in BagToSet(weekly_reports) : x.user_id = call.anonymous_user_id

\* C16 as stated: no step deletes a stored event row or changes a field of it.
C16_EventsNeverChange ==
    [][\A e \in events : e \in events']_vars

\* C16 as amended: no step deletes a stored event row or changes its
\* event_id, event_type, payload, device_id or sequence_number; user_id
\* changes only from a to r in a merge(a, r) that succeeds.
C16_EventsKeepAllButUser ==
    [][\A e \in events :
        \E e2 \in events' :
            /\ e2.event_id = e.event_id
            /\ e2.event_type = e.event_type
            /\ e2.payload = e.payload
            /\ e2.device_id = e.device_id
            /\ e2.sequence_number = e.sequence_number
            /\ \/ e2.user_id = e.user_id
               \/ /\ call'.phase = "merged"
                  /\ call'.result.merged
                  /\ e.user_id = call'.anonymous_user_id
                  /\ e2.user_id = call'.real_user_id]_vars

\* A sync answered after a merge moved an event of device d1 to the real user.
C16_Witness ==
    /\ Returned
    /\ call.result.accepted_count > 0
    /\ \A u \in users : ~u.is_anonymous
    /\ \E e \in events : e.device_id = "d1" /\ e.user_id = RealUser

\* C17: when update_projections raises during a sync_events call, the events
\* the call inserted are stored, the call returns every one of them as
\* accepted with last_acked_sequence the largest of their sequence numbers,
\* and the projection tables are as they were before the call.
C17_ProjectionFailureKeepsEvents ==
    [][(call'.phase = "returned" /\ call'.fault = "projection")
        => LET batch == call'.events
               good == WellFormedOnes(batch)
           IN  /\ events' # events
               /\ events \subseteq events'
               /\ \A i \in DOMAIN good :
                    \E e \in events' : e.event_id = good[i].event_id
               /\ \A e \in events' \ events :
                    \E i \in DOMAIN good :
                        /\ good[i].event_id = e.event_id
                        /\ good[i].sequence_number = e.sequence_number
                        /\ e.device_id = call'.device_id
               /\ call'.result.accepted_count = Len(good)
               /\ call'.result.rejected_count = Len(batch) - Len(good)
               /\ call'.result.last_acked_sequence =
                    Some(Max({good[i].sequence_number : i \in DOMAIN good}))
               /\ UNCHANGED <<workouts_projection, sets_projection, weekly_metrics>>]_vars

\* A call that stored a WorkoutStarted and a SetCompleted and lost their
\* projection.
C17_Witness ==
    /\ Returned
    /\ call.fault = "projection"
    /\ call.result.accepted_count = 2
    /\ \E e \in events : e.event_type = "WorkoutStarted"
    /\ \E e \in events : e.event_type = "SetCompleted"
    /\ workouts_projection = {}
    /\ sets_projection = {}

\* Both concurrent calls have returned.
BothDone ==
    /\ DOMAIN inflight = RaceSlots
    /\ \A slot \in RaceSlots : inflight[slot].pc = "done"

\* C18: when two calls submit the same events and both probes run before
\* either insert commits, then after both return each event_id of the batch is
\* stored in exactly one row and both calls report every event as accepted.
C18_ExactlyOnceUnderRace ==
    (/\ BothDone
     /\ inflight[1].events = inflight[2].events
     /\ \E slot \in RaceSlots : inflight[slot].raced)
        => LET batch == inflight[1].events
               good == WellFormedOnes(batch)
           IN  /\ \A i \in DOMAIN good :
                    Cardinality({e \in events : e.event_id = good[i].event_id}) = 1
               /\ \A slot \in RaceSlots :
                    /\ inflight[slot].st.accepted_count = Len(good)
                    /\ inflight[slot].st.rejected_count = 0
                    /\ inflight[slot].st.last_acked_sequence =
                            Some(Max({good[i].sequence_number : i \in DOMAIN good}))

\* Two calls raced with the same three events: one stored them in its batch
\* commit, the other found every one of them a duplicate in the fallback.
C18_Witness ==
    /\ BothDone
    /\ inflight[1].events = inflight[2].events
    /\ Len(inflight[1].events) = MaxRaceEvents
    /\ \E slot \in RaceSlots : inflight[slot].raced
    /\ \E slot \in RaceSlots : inflight[slot].commits = 0
    /\ \E slot \in RaceSlots : inflight[slot].commits = 1
    /\ Cardinality(events) = MaxRaceEvents

\* A workout event (WorkoutStarted or WorkoutEnded) of workout w in the batch.
CarriesWorkout(batch, w) ==
    \E i \in DOMAIN batch : IsWorkoutEvent(batch[i]) /\ batch[i].payload.workout_id = w

\* C19: when two calls of different devices of one user overlap, share no
\* event_id and both carry workout events for the same workout_id, then after
\* both return that workout has one projection row and every stored
\* SetCompleted event has its set row.
C19_NoSetLostAcrossDevices ==
    (/\ BothDone
     /\ \E slot \in RaceSlots : inflight[slot].overlapped
     /\ SeqToSet(event_ids_of(inflight[1].events))
            \cap SeqToSet(event_ids_of(inflight[2].events)) = {}
     /\ \A slot \in RaceSlots : CarriesWorkout(inflight[slot].events, "w1"))
        => /\ Cardinality({w \in workouts_projection : w.workout_id = "w1"}) = 1
           /\ \A e \in events :
                e.event_type = "SetCompleted"
                    => \E x \in sets_projection : x.set_id = e.payload.set_id

\* C20: a call makes its new events visible in one commit: no call inserts
\* event rows in two commits, between which a reader sees some of its new
\* events without the others.
C20_OneCommitPerCall ==
    \A slot \in DOMAIN inflight : inflight[slot].commits <= 1

\* A rebuild_projections call has ended, completed or cut short.
Rebuilt == call.phase = "rebuilt"

\* C21: a rebuild_projections call that fails after it has started leaves
\* the workout and set projections as they were before the call.
C21_FailedRebuildChangesNothing ==
    (Rebuilt /\ call.fault # "none")
        => /\ workouts_projection = call.workouts_before
           /\ sets_projection = call.sets_before

\* C26: after rebuild_projections returns, the workout and set projections
\* are the rows that a replay of the event log in (device_id,
\* sequence_number) order produces, whatever rows there were before the call;
\* an empty log gives empty projections.
C26_RebuildDependsOnLogOnly ==
    (Rebuilt /\ call.fault = "none")
        => /\ \E log \in order_by_device_sequence(events) :
                /\ workouts_projection = replay_events(log).workouts
                /\ sets_projection = replay_events(log).sets
           /\ events = {} => workouts_projection = {} /\ sets_projection = {}

\* A rebuild has removed a workout row that the log does not produce.
C26_Witness ==
    /\ Rebuilt
    /\ call.fault = "none"
    /\ call.workouts_before # {}
    /\ events # {}
    /\ workouts_projection = {}

\* The set row that a SetCompleted event e projects to is in the table sets.
HasSetRow(sets, e) ==
    \E x \in sets : x.set_id = e.payload.set_id /\ x.workout_id = e.payload.workout_id

\* C22: a valid SetCompleted event whose workout_id has no workout row after
\* the sync_events call that carried it (none stored, none created by the
\* batch) has no set row, is stored, is not rejected and is counted as
\* accepted; and after a rebuild_projections call no stored SetCompleted event
\* whose workout_id has no workout row has a set row.
C22_OrphanSetTolerated ==
    [][/\ call'.phase = "returned"
            => \A i \in DOMAIN call'.events :
                LET e == call'.events[i]
                IN  (/\ StrictlyIncreasing(call'.events)
                     /\ e.event_type = "SetCompleted"
                     /\ WellFormed(e)
                     /\ ~has_workout(workouts_projection', e.payload.workout_id))
                        => /\ ~HasSetRow(sets_projection', e)
                           /\ e.event_id \in {r.event_id : r \in events'}
                           /\ e.event_id \notin SeqToSet(call'.result.rejected_event_ids)
                           /\ call'.result.accepted_count >= 1
                           /\ call'.result.last_acked_sequence # None
       /\ (call'.phase = "rebuilt" /\ call'.fault = "none")
            => \A e \in events' :
                (/\ e.event_type = "SetCompleted"
                 /\ ~has_workout(workouts_projection', e.payload.workout_id))
                    => ~HasSetRow(sets_projection', e)]_vars

\* A call has stored and accepted a SetCompleted event whose workout has no
\* row: the set was skipped.
C22_Witness ==
    /\ Returned
    /\ Len(call.events) = 1
    /\ call.events[1].event_type = "SetCompleted"
    /\ call.events[1].event_id \in StoredIds
    /\ call.result.accepted_count = 1
    /\ call.result.rejected_count = 0
    /\ workouts_projection = {}
    /\ sets_projection = {}

C24_SyncStatusCodes ==
    [][call'.phase = "answered"
        => LET batch == call'.events
               mismatch == /\ call'.authenticated_user_id # None
                           /\ call'.authenticated_user_id # Some(call'.user_id)
               accepted == {i \in DOMAIN batch :
                                StrictlyIncreasing(batch) /\ WellFormed(batch[i])}
           IN  /\ call'.status_code \in {200, 400, 403}
               /\ call'.status_code = 403 <=> mismatch
               /\ call'.status_code = 400 <=> (~mismatch /\ accepted = {})
               /\ call'.status_code = 200 <=> (~mismatch /\ accepted # {})
               /\ call'.status_code = 200
                    => /\ call'.result.accepted_count = Cardinality(accepted)
                       /\ \A i \in accepted :
                            batch[i].event_id \in {e.event_id : e \in events'}
               /\ call'.status_code \in {400, 403} => events' = events]_vars

\* A partial success: one event of the batch accepted, one rejected, and the
\* answer is 200.
C24_Witness ==
    /\ call.phase = "answered"
    /\ call.status_code = 200
    /\ call.authenticated_user_id = Some(call.user_id)
    /\ call.result.accepted_count = 1
    /\ call.result.rejected_count = 1

\* The tables after the batch first and then the batch second, from empty
\* tables.
InOrder(first, second) ==
    LET one == sync_events(OrderDevice(first), OrderUser, inflight[first].events,
                           {}, {}, {})
    IN  sync_events(OrderDevice(second), OrderUser, inflight[second].events,
                    one.events, one.workouts, one.sets)

\* C25: when two devices of one user have synced one batch each, on
\* different workouts and with sequence numbers that may coincide, the event
\* log holds all events of both, the workout and set projections are those
\* that either order of the two calls gives, and the workout list of the user
\* returns the workout of each batch that carries a workout event.
C25_DeviceIndependence ==
    (DOMAIN inflight = OrderSlots)
        => /\ \A slot \in OrderSlots : \A i \in DOMAIN inflight[slot].events :
                \E e \in events :
                    /\ e.event_id = inflight[slot].events[i].event_id
                    /\ e.payload = inflight[slot].events[i].payload
                    /\ e.device_id = OrderDevice(slot)
                    /\ e.sequence_number = inflight[slot].events[i].sequence_number
           /\ events = InOrder(1, 2).events
           /\ events = InOrder(2, 1).events
           /\ workouts_projection = InOrder(1, 2).workouts
           /\ workouts_projection = InOrder(2, 1).workouts
           /\ sets_projection = InOrder(1, 2).sets
           /\ sets_projection = InOrder(2, 1).sets
           /\ \A slot \in OrderSlots :
                inflight[slot].result.accepted_count = Len(inflight[slot].events)
           /\ (call.phase = "listed" /\ call.user_id = OrderUser)
                => \A slot \in OrderSlots :
                    CarriesWorkout(inflight[slot].events, OrderWorkout(slot))
                        => \E k \in DOMAIN call.workouts :
                                call.workouts[k].workout_id = OrderWorkout(slot)

\* The second device synced first, both batches use sequence number 1 and
\* both workouts are in the workout list of the user.
C25_Witness ==
    /\ DOMAIN inflight = OrderSlots
    /\ inflight[2].turn = 1
    /\ inflight[1].events[1].sequence_number = inflight[2].events[1].sequence_number
    /\ sets_projection # {}
    /\ call.phase = "listed"
    /\ call.user_id = OrderUser
    /\ Len(call.workouts) = 2

\* C27: calculate_weekly_metrics(user, week_start) stores and returns for
\* (user, week_start) a row whose total_workouts is the number of the user's
\* completed workouts that started in [week_start, week_start + 6], whose
\* total_volume is the sum of reps * weight over the sets of those workouts
\* and whose exercises_count is the number of distinct exercise_ids of those
\* sets; no other workout contributes.
C27_WeeklyMetricsOfTheWeek ==
    call.phase = "metrics"
        => LET counted == {w \in workouts_projection :
                            /\ w.user_id = call.user_id
                            /\ w.status = "completed"
                            /\ w.started_at \in call.week_start .. call.week_start + 6}
               their_sets == {x \in sets_projection :
                                \E w \in counted : x.workout_id = w.workout_id}
               row == call.metrics
           IN  /\ row \in BagToSet(weekly_metrics)
               /\ row.user_id = call.user_id
               /\ row.week_start = call.week_start
               /\ row.total_workouts = Cardinality(counted)
               /\ row.total_volume = SumVolume(their_sets)
               /\ row.exercises_count = Cardinality({x.exercise_id : x \in their_sets})

\* The metrics of a week in which the user has one completed workout with
\* one set, while an in_progress workout with another set is left out.
C27_Witness ==
    /\ call.phase = "metrics"
    /\ Cardinality(workouts_projection) = 2
    /\ \A w \in workouts_projection :
            w.user_id = call.user_id /\ get_week_start(w.started_at) = call.week_start
    /\ \E w \in workouts_projection : w.status = "in_progress"
    /\ Cardinality(sets_projection) = 2
    /\ Cardinality({x.workout_id : x \in sets_projection}) = 2
    /\ call.metrics.total_workouts = 1
    /\ call.metrics.exercises_count = 1
    /\ call.metrics.total_volume > 0

\* C28: there is at most one weekly report row for each (user_id,
\* week_start) pair.
C28_OneReportPerUserWeek ==
    \A row \in BagToSet(weekly_reports) : CopiesIn(row, weekly_reports) <= 1

\* C29: the events that a sync_events call newly inserts are passed, ordered
\* by (device_id, sequence_number), to the projection updater by that call:
\* the workout and set projections it leaves are those update_projections
\* gives on the new rows, in whichever path the rows were inserted.
C29_ProjectionHandoff ==
    [][(call'.phase = "returned" /\ events' # events)
        => \E new_event_objects \in order_by_device_sequence(events' \ events) :
            LET updated == update_projections(new_event_objects, workouts_projection,
                                              sets_projection)
            IN  /\ workouts_projection' = updated.workouts
                /\ sets_projection' = updated.sets]_vars

\* C30: a workout row with status completed stays completed through every
\* sync_events call, and a call whose only new workout events for that
\* workout are WorkoutStarted events changes nothing of the row but
\* started_at.
C30_CompletedIsTerminal ==
    [][call'.phase = "returned"
        => \A w \in workouts_projection :
            w.status = "completed"
                => \E row \in workouts_projection' :
                    /\ row.workout_id = w.workout_id
                    /\ row.status = "completed"
                    /\ row.ended_at # None
                    /\ (\A e \in events' \ events :
                            (IsWorkoutEvent(e) /\ e.payload.workout_id = w.workout_id)
                                => e.event_type = "WorkoutStarted")
                        => /\ row.ended_at = w.ended_at
                           /\ row.user_id = w.user_id
                           /\ (\A e \in events' \ events :
                                    ~(IsWorkoutEvent(e)
                                        /\ e.payload.workout_id = w.workout_id))
                                => row = w]_vars

\* A WorkoutStarted of one device has been projected onto the row that the
\* WorkoutEnded of another device completed: the row has the new started_at
\* and is still completed.
C30_Witness ==
    /\ Returned
    /\ ~call.resent
    /\ call.fault = "none"
    /\ Len(call.events) = 1
    /\ call.events[1].event_type = "WorkoutStarted"
    /\ call.result.accepted_count = 1
    /\ Cardinality(events) >= 2
    /\ \E e \in events :
            /\ e.event_id = call.events[1].event_id
            /\ e.sequence_number = call.events[1].sequence_number
            /\ e.device_id = call.device_id
            /\ \E o \in events :
                    /\ o.event_type = "WorkoutEnded"
                    /\ o.payload.workout_id = e.payload.workout_id
                    /\ o.device_id # call.device_id
    /\ \E row \in workouts_projection :
            /\ row.status = "completed"
            /\ row.started_at = call.events[1].payload.started_at
            /\ Some(row.started_at) # row.ended_at

\* C31: after rebuild_weekly_metrics(user), for every week that holds a
\* completed workout of the user, the table has the row that
\* calculate_weekly_metrics(user, week_start) computes on the same
\* projections: the same total_workouts, total_volume and exercises_count.
C31_RebuildAgreesWithCalculate ==
    call.phase = "metrics_rebuilt"
        => \A w \in workouts_projection :
            (w.user_id = call.user_id /\ w.status = "completed")
                => \A computed \in calculate_weekly_metrics(
                                    call.user_id, get_week_start(w.started_at),
                                    workouts_projection, sets_projection, EmptyBag) :
                    /\ computed # EmptyBag
                    /\ \A row \in BagToSet(computed) :
                            row \in BagToSet(weekly_metrics)

\* rebuild_weekly_metrics has written the rows of two weeks of one user, one
\* of them with a set and neither counting an in_progress workout.
C31_Witness ==
    /\ call.phase = "metrics_rebuilt"
    /\ Cardinality({get_week_start(w.started_at) : w \in
            {x \in workouts_projection :
                x.user_id = call.user_id /\ x.status = "completed"}}) = 2
    /\ sets_projection # {}
    /\ Cardinality({row \in BagToSet(weekly_metrics) : row.user_id = call.user_id}) = 2
    /\ \E row \in BagToSet(weekly_metrics) : row.total_volume > 0

\* C32: when rebuild_weekly_metrics raises at the end of update_projections,
\* the workout and set rows that update_projections wrote stay committed (the
\* tables are those of the same call without the failure), the call returns
\* its result as without the failure, and no weekly-metrics row is written.
C32_AggregatorFailureIsolated ==
    [][(call'.phase = "returned" /\ call'.fault = "metrics")
        => LET out == sync_events(call'.device_id, call'.user_id, call'.events,
                                  events, workouts_projection, sets_projection)
           IN  /\ out.projected
               /\ workouts_projection' = out.workouts
               /\ sets_projection' = out.sets
               /\ events' = out.events
               /\ call'.result = out.result
               /\ weekly_metrics' = weekly_metrics]_vars

\* The aggregator failed in a call that completed a workout with a set: the
\* rows are there and no weekly-metrics row is.
C32_Witness ==
    /\ Returned
    /\ call.fault = "metrics"
    /\ \E w \in workouts_projection :
            w.status = "completed" /\ w.user_id = call.user_id
    /\ sets_projection # {}
    /\ weekly_metrics = EmptyBag

\* C33: for every returning sync_events call, accepted_count plus
\* rejected_count is the number of events of the batch, rejected_count is the
\* length of rejected_event_ids, and every id of rejected_event_ids is an
\* event_id of the batch that this call stores no row for.
C33_ResultAccounting ==
    [][call'.phase = "returned"
        => LET batch == call'.events
               result == call'.result
           IN  /\ result.accepted_count + result.rejected_count = Len(batch)
               /\ result.rejected_count = Len(result.rejected_event_ids)
               /\ \A k \in DOMAIN result.rejected_event_ids :
                    /\ \E i \in DOMAIN batch :
                            batch[i].event_id = result.rejected_event_ids[k]
                    /\ ~\E e \in events' \ events :
                            e.event_id = result.rejected_event_ids[k]]_vars

\* C33, with the last part for the batches in which no event_id occurs
\* twice: accepted_count plus rejected_count is the number of events of the
\* batch, rejected_count is the length of rejected_event_ids, every id of
\* rejected_event_ids is an event_id of the batch, and when the event_ids of
\* the batch are distinct this call stores no row for it.
C33_ResultAccountingDistinctIds ==
    [][call'.phase = "returned"
        => LET batch == call'.events
               result == call'.result
               distinct == \A k, l \in DOMAIN batch :
                              k # l => batch[k].event_id # batch[l].event_id
           IN  /\ result.accepted_count + result.rejected_count = Len(batch)
               /\ result.rejected_count = Len(result.rejected_event_ids)
               /\ \A k \in DOMAIN result.rejected_event_ids :
                    /\ \E i \in DOMAIN batch :
                            batch[i].event_id = result.rejected_event_ids[k]
                    /\ distinct =>
                         ~\E e \in events' \ events :
                            e.event_id = result.rejected_event_ids[k]]_vars

\* A call that rejected one event of its batch and stored the other; no row
\* has the rejected id.
C33_Witness ==
    /\ Returned
    /\ Len(call.events) = 2
    /\ call.events[1].event_id # call.events[2].event_id
    /\ call.result.accepted_count = 1
    /\ call.result.rejected_count = 1
    /\ Cardinality(events) = 1
    /\ \A e \in events : e.event_id # call.result.rejected_event_ids[1]

\* C34: in every state reached through sync_events and rebuild_projections,
\* each workout row is in_progress with ended_at null or completed with
\* ended_at set; no row has status cancelled.
C34_WorkoutRowWellFormed ==
    \A w \in workouts_projection :
        \/ w.status = "in_progress" /\ w.ended_at = None
        \/ w.status = "completed" /\ w.ended_at # None

\* A completed row that a WorkoutStarted and a WorkoutEnded of two calls
\* wrote, with both answers taken.
C34_Witness ==
    /\ call = NoCall
    /\ nsync = 2
    /\ Cardinality(events) = 2
    /\ \E w \in workouts_projection :
            w.status = "completed" /\ w.started_at # 9 /\ w.ended_at = Some(9)

\* The completed workouts of a user that started in the week of week_start.
CompletedInWeek(workouts, user_id, week_start) ==
    {w \in workouts : /\ w.user_id = user_id
                       /\ w.status = "completed"
                       /\ get_week_start(w.started_at) = week_start}

\* C35: when rebuild_weekly_metrics has just completed for user u at the end
\* of a sync_events call for u, every weekly-metrics row of u has
\* total_workouts equal to the number of completed workouts of u that started
\* in the week of the row, also when that week holds none any more.
C35_WeeklyMetricsFresh ==
    [][(/\ call'.phase = "returned"
        /\ call'.fault = "none"
        /\ sync_events(call'.device_id, call'.user_id, call'.events,
                       events, workouts_projection, sets_projection).aggregated)
        => \A row \in BagToSet(weekly_metrics') :
            row.user_id = call'.user_id
                => row.total_workouts =
                    Cardinality(CompletedInWeek(workouts_projection',
                                                call'.user_id, row.week_start))]_vars

\* C36: a sync_events call for user u leaves every workout row of another
\* user as it was, and adds or changes no set row under a workout of another
\* user.
C36_UserIsolation ==
    [][call'.phase = "returned"
        => /\ \A w \in workouts_projection :
                w.user_id # call'.user_id => w \in workouts_projection'
           /\ \A s \in sets_projection' \ sets_projection :
                ~\E w \in workouts_projection :
                    w.workout_id = s.workout_id /\ w.user_id # call'.user_id]_vars

\* C37: when a sync_events call carries an event_id that is already stored,
\* every stored row stays as it is (event_type, payload, user_id, device_id
\* and sequence_number) and stays the only row of its event_id, also when the
\* submitted event differs; and for a batch of increasing sequence numbers
\* the tables end as after the same call without the events already stored,
\* so no projection row changes because of them.
C37_FirstWriteWins ==
    [][(/\ call'.phase = "returned"
        /\ \E i \in DOMAIN call'.events : call'.events[i].event_id \in StoredIds)
        => LET batch == call'.events
               Fresh(x) == x.event_id \notin StoredIds
               alone == sync_events(call'.device_id, call'.user_id,
                                    SelectSeq(batch, Fresh), events,
                                    workouts_projection, sets_projection)
           IN  /\ events \subseteq events'
               /\ \A e \in events :
                    Cardinality({x \in events' : x.event_id = e.event_id}) = 1
               /\ StrictlyIncreasing(batch)
                    => /\ events' = alone.events
                       /\ workouts_projection' = alone.workouts
                       /\ sets_projection' = alone.sets]_vars

\* A call of another device and user that carried a stored event_id with
\* another event_type and sequence_number, next to a new event: the stored
\* row is the first one and the new event has its workout row.
C37_Witness ==
    /\ Returned
    /\ Len(call.events) = 2
    /\ call.result.accepted_count = 2
    /\ Cardinality(events) = 2
    /\ workouts_projection # {}
    /\ \E i \in DOMAIN call.events : \E e \in events :
            /\ e.event_id = call.events[i].event_id
            /\ e.device_id # call.device_id
            /\ e.user_id # call.user_id
            /\ e.event_type # call.events[i].event_type
            /\ e.sequence_number # call.events[i].sequence_number
    /\ \E e \in events : e.device_id = call.device_id

\* The copies in bag after of the rows of a user other than a and r are those
\* in bag before, the rows of r keep their copies at least, and the bag has as
\* many rows as before.
BagFrame(before, after, a, r) ==
    /\ BagCardinality(after) = BagCardinality(before)
    /\ \A row \in BagToSet(before) \cup BagToSet(after) :
        /\ row.user_id \notin {a, r} => CopiesIn(row, after) = CopiesIn(row, before)
        /\ row.user_id = r => CopiesIn(row, after) >= CopiesIn(row, before)

\* C38: a merge_user_data(a, r) that succeeds changes the user_id of the rows
\* of a and deletes the user row of a, and nothing else: the user row of r,
\* the rows of other users, every set row and every other field of the moved
\* rows stay; the counts it returns are the numbers of rows that a had in
\* events, workout projections, weekly metrics and weekly reports.
C38_MergeFrame ==
    [][(call'.phase = "merged" /\ call'.result.merged)
        => LET a == call'.anonymous_user_id
               r == call'.real_user_id
               Moved(row) == IF row.user_id = a THEN [row EXCEPT !.user_id = r] ELSE row
           IN  /\ users' = {u \in users : u.user_id # a}
               /\ \E u \in users' : u.user_id = r
               /\ sets_projection' = sets_projection
               /\ events' = {Moved(e) : e \in events}
               /\ Cardinality(events') = Cardinality(events)
               /\ workouts_projection' = {Moved(w) : w \in workouts_projection}
               /\ Cardinality(workouts_projection') = Cardinality(workouts_projection)
               /\ BagToSet(weekly_metrics') = {Moved(m) : m \in BagToSet(weekly_metrics)}
               /\ BagFrame(weekly_metrics, weekly_metrics', a, r)
               /\ BagToSet(weekly_reports') = {Moved(x) : x \in BagToSet(weekly_reports)}
               /\ BagFrame(weekly_reports, weekly_reports', a, r)
               /\ call'.result.events_updated =
                    Cardinality({e \in events : e.user_id = a})
               /\ call'.result.workouts_updated =
                    Cardinality({w \in workouts_projection : w.user_id = a})
               /\ call'.result.metrics_updated =
                    BagCardinality(weekly_metrics)
                        - BagCardinality([m \in {x \in BagToSet(weekly_metrics) : x.user_id # a}
                                            |-> CopiesIn(m, weekly_metrics)])
               /\ call'.result.reports_updated =
                    BagCardinality(weekly_reports)
                        - BagCardinality([m \in {x \in BagToSet(weekly_reports) : x.user_id # a}
                                            |-> CopiesIn(m, weekly_reports)])]_vars

\* A merge that moved an event and a workout of a while r had an event, a
\* weekly-metrics row and a report of its own.
C38_Witness ==
    /\ call.phase = "merged"
    /\ call.result.merged
    /\ call.result.workouts_updated = 1
    /\ Cardinality(events) > call.result.events_updated
    /\ BagCardinality(weekly_metrics) > call.result.metrics_updated
    /\ BagCardinality(weekly_reports) > call.result.reports_updated
    /\ \E e \in events : e.device_id = "d2"

\* C39: once merge_user_data(a, r) has succeeded, which is when the user row
\* of the anonymous user is gone, no event, workout projection, weekly-metrics
\* or weekly-report row has user_id a, whatever calls follow.
C39_MergedIdentityStaysGone ==
    (\A u \in users : u.user_id # AnonUser)
        => /\ \A e \in events : e.user_id # AnonUser
           /\ \A w \in workouts_projection : w.user_id # AnonUser
           /\ \A m \in BagToSet(weekly_metrics) : m.user_id # AnonUser
           /\ \A x \in BagToSet(weekly_reports) : x.user_id # AnonUser

\* C40: for one device, of two successive sync_events calls that each accept
\* an event, the second returns a last_acked_sequence that is not below the
\* one the first returned.
C40_AckCursorMonotonic ==
    [][(/\ call.phase = "returned"
        /\ call'.phase = "returned"
        /\ call'.device_id = call.device_id
        /\ call.result.accepted_count > 0
        /\ call'.result.accepted_count > 0)
        => call'.result.last_acked_sequence[1] >= call.result.last_acked_sequence[1]]_vars

====
